---- MODULE Spec2Model ----
(***************************************************************************)
(* Verification model of silentkeys (src-tauri):                           *)
(*   - the streaming hypothesis manager (streaming/word_hypothesis.rs),    *)
(*   - the decode thread of the streaming pipeline (streaming/pipeline.rs),*)
(*   - the recorder singleton and its capture worker (recording/mod.rs,    *)
(*     recording/audio_thread.rs),                                         *)
(*   - the speech engine: model loader and idle watcher (engine.rs),       *)
(*   - greedy decoding of the transducer (asr/decoder, asr/recognizer),    *)
(*   - keyboard typing of patches and the global shortcut (desktop/).      *)
(* The specifications of the module:                                       *)
(*   MgrSpec  the hypothesis manager driven through its public methods,    *)
(*   Spec     the decode thread of one live streaming session,             *)
(*   RecSpec  start()/stop() callers and capture workers of the recorder,  *)
(*   EngSpec  callers of the speech engine, its loaders and idle watcher,  *)
(*   DecSpec  batch transcriptions of one AsrModel with greedy decoding,   *)
(*   FanSpec  the frames of one recording session: capture loop, utterance *)
(*            buffer and fanout channel,                                   *)
(*   DlSpec   download_asset for one file of the model,                    *)
(*   ProgSpec the download-progress record under calls of its functions,   *)
(*   FnSpec   one call of tokens_to_words or of resample_linear,           *)
(*   SesSpec  the DecodingSession of one decode thread,                    *)
(*   SesApiSpec  the DecodingSession under commit_to with any frame limit, *)
(*   ThrSpec, ThrFairSpec  the ingest and decode threads of one pipeline,  *)
(*   LkSpec, LkFairSpec  the threads that take the locks of the engine,    *)
(*   TypSpec  the typing buffer of one global-shortcut streaming session,  *)
(*   KeySpec  presses and releases of the global shortcut.                 *)
(* Text is a sequence of one-character strings, so that lengths are counts *)
(* of Unicode scalar values as in the code (chars().collect()).            *)
(***************************************************************************)
EXTENDS Integers, Sequences, FiniteSets, TLC

VARIABLES
    config,            \* WordHypothesisManager.config
    committed,         \* WordHypothesisManager.committed
    current_draft,     \* WordHypothesisManager.current_draft
    history,           \* WordHypothesisManager.history (front = index 1)
    emitted_committed_len, \* WordHypothesisManager.emitted_committed_len
    current_audio_ms,  \* current_audio_ms of the latest update_draft call
    last,              \* the latest manager call: its arguments, its result and
                       \* the lengths before it (history variable)
    running,           \* StreamingPipeline.running
    encoder_cursor,    \* DecodingSession.encoder_cursor
    last_token,        \* DecodingSession.last_token
    decode_pc,         \* position of the decode thread: "loop" or "done"
    stable_log,        \* stable patches handed to on_update, in order
    prior_lens,        \* emitted_committed_len before each stable patch
    tick_out,          \* patches handed to on_update by the latest step
    rec,               \* the recorder singleton, the threads calling it and its
                       \* capture workers (fields: see RecIdle)
    eng,               \* the speech engine, the threads calling it, its loader
                       \* threads and its idle watcher (fields: see EngIdle)
    dec,               \* the AsrModel's decoder cache and the transcription in
                       \* progress (fields: see DecIdle)
    fan,               \* the frames of one recording session (fields: see
                       \* FanIdle)
    dl,                \* one download_asset call, the files it works on and the
                       \* server's answers (fields: see DlIdle)
    prog,              \* the DownloadProgress record, with the latest call
                       \* made on it
    fnv,               \* one call of a function without state: its arguments
                       \* and, once it has returned, its value
    ses,               \* the DecodingSession of a decode thread, with its latest
                       \* call (fields: see SesNew)
    thr,               \* the ingest thread and the decode thread of one
                       \* StreamingPipeline (fields: see ThrIdle)
    lk,                \* the locks of the speech engine and the threads that
                       \* take them (fields: see LkIdle)
    typ,               \* the transcription buffer and the typing queue of the
                       \* global-shortcut path (fields: see TypIdle)
    key                \* the global shortcut, its handler and the tasks it
                       \* spawns (fields: see KeyIdle)

vars == <<config, committed, current_draft, history, emitted_committed_len,
          current_audio_ms, last, running, decode_pc, encoder_cursor,
          last_token, stable_log, prior_lens, tick_out, rec, eng, dec, fan,
          dl, prog, fnv, ses, thr, lk, typ, key>>

mgr_vars == <<config, committed, current_draft, history,
              emitted_committed_len, current_audio_ms, last>>

pipe_vars == <<running, decode_pc, encoder_cursor, last_token, stable_log,
               prior_lens, tick_out>>

\* the components beside the hypothesis manager and the decode thread
comp_vars == <<rec, eng, dec, fan, dl, prog, fnv, ses, thr, lk, typ, key>>

\* the components that have a specification of their own besides the
\* recorder, the speech engine and the decoder
ext_vars == <<fan, dl, prog, fnv, ses, thr, lk, typ, key>>

\* the components of the desktop application around a recording session
app_vars == <<thr, lk, typ, key>>

----------------------------------------------------------------------------
(* Bounds of the model *)

\* longest draft handed to update_draft
MaxDraftLen == 2

\* capture workers spawned in one run of the recorder
MaxWorkers == 2

\* update_draft is not called once this many words are committed
MaxCommitted == 2

\* loader threads spawned in one run of the speech engine
MaxLoaders == 2

\* periods of the idle watcher that the clock of the speech engine runs for
MaxTicks == 7

\* longest encoder output handed to the decoder, in frames
MaxFrames == 2

\* chunks of PROCESS_CHUNK_SIZE samples the ring buffer of a session holds
MaxChunks == 2

\* frames the audio processor emits in one recording session
MaxEmitted == 3

\* size of the asset on the server, in units of one read of the body
MaxSize == 2

\* largest file count, file index and byte count handed to the functions of
\* the download-progress record
MaxProgress == 2

\* longest token list handed to tokens_to_words
MaxTokenList == 3

\* longest input of resample_linear, in samples
MaxSamples == 3

\* largest sample rate handed to resample_linear
MaxRate == 3

\* times the shortcut is pressed
MaxPresses == 4

\* words of the utterance of a session of the global-shortcut path
MaxWords == 3

\* audio a decoding session is handed in all, in frames of 1280 samples
MaxSessionFrames == 30

\* tokens one decode of a decoding session returns
MaxDecoded == 1

----------------------------------------------------------------------------
(* Words and drafts *)

Max(a, b) == IF a >= b THEN a ELSE b

\* WordWithTime
Word(text, t0, t1, ef, tok) ==
    [text |-> text, t0_ms |-> t0, t1_ms |-> t1, end_frame |-> ef,
     last_token_id |-> tok]

\* FRAME_DURATION_MS
FRAME_DURATION_MS == 80

\* finalize_word: a word spanning encoder frames start_frame..end_frame
FrameWord(text, start_frame, end_frame, tok) ==
    Word(text, start_frame * FRAME_DURATION_MS, end_frame * FRAME_DURATION_MS,
         end_frame, tok)

\* the word of the first time slot
Slot1Words == { FrameWord(<<"h", "i">>, 0, 2, 10) }

\* words of the second slot: two competing texts that start after the first
\* slot has ended, and one word that starts on frame 2, where the word of
\* slot 1 ends (a token may start on the frame the previous one ended on)
Slot2Words ==
    { FrameWord(<<"i", "t">>, 3, 5, 11), FrameWord(<<"y", "o", "u">>, 3, 5, 12),
      FrameWord(<<"i", "t">>, 2, 5, 11) }

SlotWords == <<Slot1Words, Slot2Words>>

\* drafts: words of increasing slots, at most MaxDraftLen of them
RECURSIVE DraftsFrom(_, _)
DraftsFrom(slot, n) ==
    IF n = 0 \/ slot > Len(SlotWords) THEN { <<>> }
    ELSE DraftsFrom(slot + 1, n)
         \cup { <<w>> \o d : w \in SlotWords[slot], d \in DraftsFrom(slot + 1, n - 1) }

Drafts == DraftsFrom(1, MaxDraftLen)

\* values of current_audio_ms handed to update_draft
AudioTimes == { 300, 5000 }

----------------------------------------------------------------------------
(* WordHypothesisConfig *)

DefaultConfig ==
    [history_size |-> 4, commit_lag_ms |-> 50, time_bucket_ms |-> 100,
     safety_margin_words |-> 0, max_uncommitted_duration_ms |-> 4000]

\* the configurations a manager is constructed with
Configs ==
    { DefaultConfig,
      [DefaultConfig EXCEPT !.history_size = 3, !.commit_lag_ms = 0],
      [DefaultConfig EXCEPT !.history_size = 3, !.commit_lag_ms = 0,
                            !.safety_margin_words = 1] }

\* update_draft computes the stable prefix once the history holds this many
MinHistoryForLsp == 3

----------------------------------------------------------------------------
(* Pure functions of streaming/hypothesis.rs and word_hypothesis.rs *)

\* i64 division truncates; all operands here are >= 0, where \div agrees
center_ms(w) == (w.t0_ms + w.t1_ms) \div 2

\* variant: the text comparison is left out
matches_in_time_bucket_NoText(w, other, bucket_ms) ==
    center_ms(w) \div bucket_ms = center_ms(other) \div bucket_ms

matches_in_time_bucket(w, other, bucket_ms) ==
    /\ w.text = other.text
    /\ center_ms(w) \div bucket_ms = center_ms(other) \div bucket_ms

RECURSIVE JoinWords(_)
JoinWords(ws) ==
    IF ws = <<>> THEN <<>>
    ELSE IF Len(ws) = 1 THEN ws[1].text
    ELSE ws[1].text \o <<" ">> \o JoinWords(Tail(ws))

words_to_text(cs, ds) == JoinWords(cs \o ds)

\* retain(|w| w.t0_ms > boundary)
RECURSIVE Retain(_, _)
Retain(ws, boundary) ==
    IF ws = <<>> THEN <<>>
    ELSE IF ws[1].t0_ms > boundary THEN <<ws[1]>> \o Retain(Tail(ws), boundary)
    ELSE Retain(Tail(ws), boundary)

\* word i of the first draft matches word i of every later draft
StableAt(hist, i, bucket_ms) ==
    \A d \in 2..Len(hist) :
        /\ i <= Len(hist[d])
        /\ matches_in_time_bucket(hist[1][i], hist[d][i], bucket_ms)

longest_stable_prefix(hist, bucket_ms) ==
    IF hist = <<>> THEN <<>>
    ELSE LET first == hist[1]
             ok(n) == \A i \in 1..n : StableAt(hist, i, bucket_ms)
             n == CHOOSE k \in 0..Len(first) :
                      /\ ok(k)
                      /\ \A j \in (k + 1)..Len(first) : ~ok(j)
         IN SubSeq(first, 1, n)

\* variant: the commit lag is not applied
check_and_commit_NoLag(cfg, stable_prefix, audio_ms) ==
    SubSeq(stable_prefix, 1, Max(0, Len(stable_prefix) - cfg.safety_margin_words))

\* Option<Vec<WordWithTime>>: None is <<>> (the code never returns Some(empty))
check_and_commit(cfg, stable_prefix, audio_ms) ==
    LET limit == Max(0, Len(stable_prefix) - cfg.safety_margin_words)
        ok(n) == \A i \in 1..n :
                     stable_prefix[i].t1_ms <= audio_ms - cfg.commit_lag_ms
        n == CHOOSE k \in 0..limit :
                 /\ ok(k)
                 /\ \A j \in (k + 1)..limit : ~ok(j)
    IN SubSeq(stable_prefix, 1, n)

\* variant: the whole draft is committed instead of its head
check_force_commit_WholeDraft(cfg, draft, audio_ms) ==
    IF draft = <<>> THEN <<>>
    ELSE IF audio_ms - draft[1].t0_ms > cfg.max_uncommitted_duration_ms
         THEN draft
         ELSE <<>>

check_force_commit(cfg, draft, audio_ms) ==
    IF draft = <<>> THEN <<>>
    ELSE IF audio_ms - draft[1].t0_ms > cfg.max_uncommitted_duration_ms
         THEN <<draft[1]>>
         ELSE <<>>

\* history.push_back(draft); pop_front() when longer than history_size
PushHistory(cfg, hist, draft) ==
    LET h == Append(hist, draft)
    IN IF Len(h) > cfg.history_size THEN Tail(h) ELSE h

\* variant: two drafts are enough
LspEnabled_AtTwo(cfg, hist) == Len(hist) >= 2

\* the guard of the stable-prefix computation in update_draft
LspEnabled(cfg, hist) == Len(hist) >= MinHistoryForLsp

\* update_draft: the manager's fields after the call, its return value
\* (None is <<>>, Some((frame, token)) is <<frame, token>>), and which rule
\* produced the commit
update_draft(cfg, cs, hist, new_words, audio_ms) ==
    LET h1 == PushHistory(cfg, hist, new_words)
        stable_prefix == IF LspEnabled(cfg, h1)
                         THEN longest_stable_prefix(h1, cfg.time_bucket_ms)
                         ELSE <<>>
        by_lsp == check_and_commit(cfg, stable_prefix, audio_ms)
        by_force == check_force_commit(cfg, new_words, audio_ms)
        to_commit == IF by_lsp # <<>> THEN by_lsp ELSE by_force
        rule == IF by_lsp # <<>> THEN "lsp"
                ELSE IF by_force # <<>> THEN "force" ELSE "none"
    IN IF to_commit = <<>>
       THEN [committed |-> cs, current_draft |-> new_words, history |-> h1,
             ret |-> <<>>, rule |-> rule, to_commit |-> <<>>,
             stable_prefix |-> stable_prefix, pushed_len |-> Len(h1)]
       ELSE LET lastw == to_commit[Len(to_commit)]
                boundary == lastw.t1_ms
            IN [committed |-> cs \o to_commit,
                current_draft |-> Retain(new_words, boundary),
                history |-> [i \in 1..Len(h1) |-> Retain(h1[i], boundary)],
                ret |-> <<lastw.end_frame, lastw.last_token_id>>,
                rule |-> rule, to_commit |-> to_commit,
                stable_prefix |-> stable_prefix, pushed_len |-> Len(h1)]

\* str::trim().is_empty() on the texts of this model: only " " is whitespace
IsBlank(text) == \A i \in 1..Len(text) : text[i] = " "

\* str::trim_start()
RECURSIVE TrimStart(_)
TrimStart(text) ==
    IF text # <<>> /\ text[1] = " " THEN TrimStart(Tail(text)) ELSE text

\* str::trim()
RECURSIVE Trim(_)
Trim(text) ==
    LET t == TrimStart(text)
    IN IF t # <<>> /\ t[Len(t)] = " " THEN Trim(SubSeq(t, 1, Len(t) - 1)) ELSE t

\* str::trim_end()
RECURSIVE TrimEnd(_)
TrimEnd(text) ==
    IF text # <<>> /\ text[Len(text)] = " "
    THEN TrimEnd(SubSeq(text, 1, Len(text) - 1)) ELSE text

\* suffix_after_prefix: Option<String>
suffix_after_prefix(prefix, full) ==
    LET prefix_trimmed == TrimEnd(prefix)
        full_trimmed == TrimEnd(full)
        suffix == SubSeq(full_trimmed, Len(prefix_trimmed) + 1, Len(full_trimmed))
    IN IF Len(full_trimmed) < Len(prefix_trimmed)
       THEN [some |-> FALSE]
       ELSE IF SubSeq(full_trimmed, 1, Len(prefix_trimmed)) # prefix_trimmed
            THEN [some |-> FALSE]
            ELSE IF Trim(suffix) = <<>>
                 THEN [some |-> FALSE]
                 ELSE [some |-> TRUE, text |-> suffix]

\* append_and_type on session t: the text goes to the transcription buffer
\* and to the typing queue
append_and_type(t, text) ==
    IF text = <<>> THEN t
    ELSE [t EXCEPT !.buffer = @ \o text, !.queue = Append(@, text)]

\* apply_patch_for_typing
apply_patch_for_typing(t, patch) ==
    IF ~patch.stable \/ patch.text = <<>> THEN t
    ELSE append_and_type(t, patch.text)

\* the on_update closure of start_streaming_pipeline
on_update(t, p) ==
    IF p.text # <<>>
    THEN LET u == [t EXCEPT !.streamed_any = TRUE]
         IN IF p.stable THEN apply_patch_for_typing(u, p) ELSE u
    ELSE t

\* the texts of tokens, joined
RECURSIVE raw_text(_)
raw_text(tokens) ==
    IF tokens = <<>> THEN <<>> ELSE Head(tokens).text \o raw_text(Tail(tokens))

\* a finalize_word that keeps a word whose text is empty
finalize_word_KeepEmpty(tokens) ==
    LET last_tok == tokens[Len(tokens)]
    IN <<FrameWord(Trim(raw_text(tokens)), tokens[1].start_frame,
                   last_tok.end_frame, last_tok.token_id)>>

\* finalize_word: Option<WordWithTime> as a sequence of at most one word
finalize_word(tokens) ==
    LET last_tok == tokens[Len(tokens)]
        text == Trim(raw_text(tokens))
    IN IF tokens = <<>> \/ text = <<>>
       THEN <<>>
       ELSE <<FrameWord(text, tokens[1].start_frame, last_tok.end_frame,
                        last_tok.token_id)>>

\* the loop of tokens_to_words over the tokens left, with the words pushed
\* so far and current_word_tokens
RECURSIVE tokens_loop(_, _, _)
tokens_loop(tokens, words, current_word_tokens) ==
    IF tokens = <<>>
    THEN IF current_word_tokens # <<>>
         THEN words \o finalize_word(current_word_tokens)
         ELSE words
    ELSE LET token == Head(tokens)
             starts_word == \/ (token.text # <<>> /\ token.text[1] = " ")
                            \/ current_word_tokens = <<>>
         IN IF starts_word /\ current_word_tokens # <<>>
            THEN tokens_loop(Tail(tokens),
                             words \o finalize_word(current_word_tokens),
                             <<token>>)
            ELSE tokens_loop(Tail(tokens), words,
                             Append(current_word_tokens, token))

tokens_to_words(tokens) ==
    IF tokens = <<>> THEN <<>> ELSE tokens_loop(tokens, <<>>, <<>>)

\* an out_len that rounds down
out_len_Floor(len, from_sr, to_sr) == Max((len * to_sr) \div from_sr, 1)

\* resample_linear: out_len, for rates above 0
out_len(len, from_sr, to_sr) ==
    Max((len * to_sr + from_sr - 1) \div from_sr, 1)

\* resample_linear. A sample of the output is written as its product with
\* to_sr, which is whole: pos = i * from_sr / to_sr, idx its floor and frac
\* the rest
resample_linear(input, from_sr, to_sr) ==
    IF from_sr = 0 \/ to_sr = 0 \/ input = <<>>
    THEN <<>>
    ELSE [k \in 1..out_len(Len(input), from_sr, to_sr) |->
            LET i == k - 1
                idx == (i * from_sr) \div to_sr
                frac_num == (i * from_sr) % to_sr
                current == IF idx < Len(input) THEN input[idx + 1] ELSE 0
                next == IF idx + 1 < Len(input) THEN input[idx + 2] ELSE current
            IN current * to_sr + (next - current) * frac_num]

\* take_newly_committed: Option<String> (None is [some |-> FALSE]) and the
\* new emitted_committed_len
take_newly_committed(cs, emitted) ==
    LET committed_chars == words_to_text(cs, <<>>)
    IN IF Len(committed_chars) > emitted
       THEN LET new_text == SubSeq(committed_chars, emitted + 1, Len(committed_chars))
            IN [ret |-> IF ~IsBlank(new_text)
                        THEN [some |-> TRUE, text |-> new_text]
                        ELSE [some |-> FALSE],
                emitted |-> Len(committed_chars)]
       ELSE [ret |-> [some |-> FALSE], emitted |-> emitted]

get_full_text(cs, ds) == words_to_text(cs, ds)

get_draft_only_text(ds) == words_to_text(<<>>, ds)

IsPrefix(s, t) == Len(s) <= Len(t) /\ SubSeq(t, 1, Len(s)) = s

----------------------------------------------------------------------------
(* The recorder: identifiers *)

\* threads that call Recorder::global().start() and .stop()
Callers == { "t1", "t2" }

\* capture worker threads, in spawn order; 0 stands for None
Workers == 1..MaxWorkers

----------------------------------------------------------------------------
(* The speech engine: identifiers and constants *)

\* threads that call SpeechEngine::ensure_model_loaded / transcribe_samples
EngCallers == { "a", "b" }

\* loader threads, in spawn order
Loaders == 1..MaxLoaders

\* the idle watcher sleeps this many seconds between checks
WATCH_PERIOD_SECS == 60

\* the idle watcher unloads when last_use is more than this many seconds old
IDLE_UNLOAD_SECS == 300

----------------------------------------------------------------------------
(* The transducer decoder: vocabulary, joint network, configurations       *)
(* Scores and logits are integers; one unit stands for 0.5. Logits are     *)
(* even, so that the division by the temperature is exact. Scores are      *)
(* finite: NaN and infinite logits are not modelled. An Option is a        *)
(* sequence of length 0 (None) or 1 (Some).                                *)

\* token ids; the vocabulary holds two tokens and the blank
Vocab == 0..2

\* AsrModel.blank_idx: the id of <blk> in the vocabulary
blank_idx == 2

\* DecoderWorkspace::new: the zero-filled decoder state
ZeroState == 0

\* a vector of logits from its entries in the order of the ids
LogitsOf(tup) == [i \in Vocab |-> tup[i + 1]]

\* the encoder frames decoded: on a cold decoder token 0 leads the blank by
\* 2; the blank leads, token 1 second; tokens 0 and 1 tie, far above the blank
Frames == { LogitsOf(<<4, 0, 2>>), LogitsOf(<<0, 2, 4>>), LogitsOf(<<4, 4, 0>>) }

\* sequences over S of length 1..n
SeqsUpTo(S, n) == UNION { [1..k -> S] : k \in 1..n }

\* encoder outputs with their valid length
Encodings == SeqsUpTo(Frames, MaxFrames)

\* the joint network, output "outputs": a deterministic function of the
\* encoder step, the target token and the input states; it lowers the logit
\* of the target token and raises the blank with the state
JointLogits(frame, target, state) ==
    [i \in Vocab |->
        frame[i] - (IF i = target /\ i # blank_idx THEN 4 ELSE 0)
                 + (IF i = blank_idx THEN 2 * state ELSE 0)]

\* the joint network, outputs "output_states_1/2"
JointState(target, state) == (state + target + 1) % 2

\* InferenceConfig with beam_width = 1; hotwords is the set of the token ids
\* whose vocabulary entry is one of the configured hotwords
PlainConfig ==
    [temperature |-> 1, max_tokens_per_step |-> 2, min_blank_margin |-> 0,
     hotword_boost |-> 0, hotwords |-> {}]

\* the configurations decoded with
DecConfigs ==
    { PlainConfig,
      [PlainConfig EXCEPT !.temperature = 2, !.min_blank_margin = 2],
      [PlainConfig EXCEPT !.temperature = 0, !.max_tokens_per_step = 0],
      [PlainConfig EXCEPT !.max_tokens_per_step = 1, !.min_blank_margin = 2],
      [PlainConfig EXCEPT !.temperature = 2, !.max_tokens_per_step = 1,
                          !.hotword_boost = 2, !.hotwords = { 1 }],
      [PlainConfig EXCEPT !.temperature = 2, !.min_blank_margin = 2,
                          !.hotword_boost = 2, !.hotwords = { 1 }] }

normalized_temperature(cfg) ==
    IF cfg.temperature <= 0 THEN 1 ELSE cfg.temperature

\* build_hotword_mask: the ids marked true in the mask; {} stands for None
build_hotword_mask(cfg) ==
    IF cfg.hotword_boost <= 0 \/ cfg.hotwords = {} THEN {} ELSE cfg.hotwords

\* extract_top_tokens, the map: l / temp, plus the boost under the mask
TokenScore(vocab_logits, temp, mask, boost, i) ==
    (vocab_logits[i] \div temp) + (IF i \in mask THEN boost ELSE 0)

\* the first of the candidates in the order of sort_by(b.1.total_cmp(a.1)),
\* a stable sort of candidates listed by ascending id
TopOf(cands, vocab_logits, temp, mask, boost) ==
    CHOOSE i \in cands :
        \A j \in cands :
            \/ TokenScore(vocab_logits, temp, mask, boost, i)
                  > TokenScore(vocab_logits, temp, mask, boost, j)
            \/ /\ TokenScore(vocab_logits, temp, mask, boost, i)
                     = TokenScore(vocab_logits, temp, mask, boost, j)
               /\ i <= j

\* an extraction that lets every token through whatever its margin
extract_top_tokens_NoMargin(vocab_logits, blank_score, temp, cfg, mask, boost) ==
    LET cands == Vocab \ { blank_idx }
        best == TopOf(cands, vocab_logits, temp, mask, boost)
    IN << <<best, TokenScore(vocab_logits, temp, mask, boost, best)>> >>

\* extract_top_tokens with beam_width = 1: the non-blank tokens that pass the
\* margin filter, sorted by descending score, truncated to one
extract_top_tokens(vocab_logits, blank_score, temp, cfg, mask, boost) ==
    LET cands ==
            { i \in Vocab \ { blank_idx } :
                \/ cfg.min_blank_margin <= 0
                \/ TokenScore(vocab_logits, temp, mask, boost, i) - blank_score
                      >= cfg.min_blank_margin }
        best == TopOf(cands, vocab_logits, temp, mask, boost)
    IN IF cands = {}
       THEN <<>>
       ELSE << <<best, TokenScore(vocab_logits, temp, mask, boost, best)>> >>

\* DecoderSession::step_scores
step_scores(encoder_step, target_token, state, cfg) ==
    LET slice == JointLogits(encoder_step, target_token, state)
        t == normalized_temperature(cfg)
        bs == slice[blank_idx] \div t
    IN [blank_score |-> bs,
        top_tokens |-> extract_top_tokens(slice, bs, t, cfg,
                                          build_hotword_mask(cfg), cfg.hotword_boost),
        output_state |-> JointState(target_token, state)]

\* a per-frame limit one above the configured one
MaxTokens_OneMore(cfg) == Max(cfg.max_tokens_per_step, 1) + 1

\* decode_sequence_greedy: max_tokens = config.max_tokens_per_step.max(1)
MaxTokens(cfg) == Max(cfg.max_tokens_per_step, 1)

\* a reset that discards the workspace and keeps the last token
reset_state_KeepToken(d) ==
    [d EXCEPT !.cached_workspace = <<>>, !.was_reset = TRUE]

\* AsrModel::reset_state
reset_state(d) ==
    [d EXCEPT !.cached_workspace = <<>>, !.cached_last_token = blank_idx,
              !.was_reset = TRUE]

----------------------------------------------------------------------------
(* The hypothesis manager driven through its public methods (MgrSpec) *)

NoCall ==
    [op |-> "new", new_words |-> <<>>, rule |-> "none", to_commit |-> <<>>,
     ret |-> <<>>, prior_len |-> 0, pre_len |-> 0, stable_len |-> 0]

\* Recorder::new: Idle, nothing stored, no worker spawned, no call in progress
RecIdle ==
    [is_recording |-> FALSE,
     cmd_tx |-> 0,
     worker_handle |-> 0,
     processed_samples |-> 0,
     streamed_any |-> FALSE,
     overrun_count |-> 0,
     spawned |-> 0,
     wstate |-> [w \in Workers |-> "unspawned"],
     stop_sent |-> [w \in Workers |-> FALSE],
     init_err |-> [w \in Workers |-> "none"],
     captured |-> [w \in Workers |-> 0],
     pc |-> [t \in Callers |-> "idle"],
     my |-> [t \in Callers |-> 0],
     called_on |-> [t \in Callers |-> 0],
     result |-> [t \in Callers |-> "none"]]

\* SpeechEngine::new: Unloaded, no model, last_use = now, the idle watcher
\* asleep; no loader spawned, no call in progress
EngIdle ==
    [status |-> "Unloaded",
     model |-> FALSE,
     model_held |-> FALSE,
     status_held |-> FALSE,
     last_use |-> 0,
     now |-> 0,
     last_activity |-> 0,
     spawned |-> 0,
     lstate |-> [l \in Loaders |-> "unspawned"],
     pc |-> [c \in EngCallers |-> "idle"],
     kind |-> [c \in EngCallers |-> "none"],
     woken |-> [c \in EngCallers |-> FALSE],
     result |-> [c \in EngCallers |-> "none"],
     wpc |-> "sleep",
     w_due |-> FALSE,
     w_elapsed |-> 0]

\* no decode recorded yet
NoDecode ==
    [enc |-> <<>>, dirty |-> FALSE, tokens |-> <<>>, timestamps |-> <<>>]

\* AsrModel::new with configuration c: no cached workspace, the cached last
\* token is the blank, no transcription in progress. cached_workspace holds
\* the decoder state of the cached workspace. While a transcription runs,
\* enc is the encoder output, state and last_token are session.workspace.state
\* and session.last_token, t and n the counters of the two loops of
\* decode_sequence_greedy, tokens and timestamps its vectors. History
\* variables: was_reset (reset_state ran and no decode began since), fresh
\* (this call began from such a reset), dirty (that reset discarded a last
\* token other than the blank), prev (the latest call that began from a
\* reset and returned Ok), pair (the call that has just returned and the one
\* of prev both began from a reset, the first one a dirty one, and decoded
\* the same encoder output).
DecIdle(c) ==
    [cfg |-> c,
     cached_workspace |-> <<>>,
     cached_last_token |-> blank_idx,
     was_reset |-> FALSE,
     pc |-> "idle",
     enc |-> <<>>,
     state |-> ZeroState,
     last_token |-> blank_idx,
     t |-> 0,
     n |-> 0,
     tokens |-> <<>>,
     timestamps |-> <<>>,
     fresh |-> FALSE,
     dirty |-> FALSE,
     result |-> "none",
     prev |-> NoDecode,
     pair |-> FALSE]

\* A recording session whose start(streaming_tx) has returned Ok: the stream
\* plays, the worker is in its loop, nothing captured yet. ring counts the
\* chunks in the ring buffer, emitted the frames the audio processor has
\* handed to dispatch (a frame is known by its rank of arrival),
\* processed_local and processed_samples are the worker's buffer and the
\* recorder's, as the sequence of the frames whose samples they hold,
\* forwarded the frames the fanout channel has accepted, rx_open whether its
\* Receiver exists, returned what stop() has returned with result Ok.
FanIdle(tx) ==
    [streaming_tx |-> tx,
     rx_open |-> tx,
     stream |-> TRUE,
     ring |-> 0,
     stop_sent |-> FALSE,
     stopping |-> FALSE,
     pc |-> "loop",
     emitted |-> 0,
     processed_local |-> <<>>,
     forwarded |-> <<>>,
     processed_samples |-> <<>>,
     returned |-> <<>>,
     result |-> "none"]

\* download_asset(url, dest) is entered for an asset of the given size, with
\* tmp_len bytes of it in the .download file left by an earlier call (tmp is
\* whether that file exists) and no final file. attempt is the loop
\* variable, pc the position in try_download_resumable; has_len is whether
\* the response carries a Content-Length that parses, current_len,
\* total_size and downloaded are the locals of that name; slept lists the
\* sleeps of download_asset in seconds, log the outcome of each attempt.
DlIdle(size, tmp, tmp_len) ==
    [size |-> size,
     tmp |-> tmp,
     tmp_len |-> tmp_len,
     dest |-> FALSE,
     dest_len |-> 0,
     attempt |-> 1,
     pc |-> "request",
     status |-> 0,
     has_len |-> FALSE,
     current_len |-> 0,
     total_size |-> 0,
     downloaded |-> 0,
     last_err |-> "none",
     slept |-> <<>>,
     log |-> <<>>,
     result |-> "none"]

\* progress_state(): the record before any call; call is the latest call made
\* on the record, with its arguments
ProgressZero ==
    [file_index |-> 0, file_count |-> 0, downloaded_bytes |-> 0,
     total_bytes |-> 0, done |-> FALSE, error |-> "None"]

ProgIdle == [p |-> ProgressZero, call |-> <<"none">>]

\* texts of tokens: " " is the space marker, "a" stands for any other char
TokenTexts == { <<>>, <<" ">>, <<"a">>, <<" ", "a">>, <<"a", " ">>, <<" ", " ">> }

\* the token lists of n tokens, one token to a frame
TokenLists(n) ==
    { [i \in 1..n |-> [token_id |-> 0, text |-> f[i], start_frame |-> i - 1,
                       end_frame |-> i]] : f \in [1..n -> TokenTexts] }

SampleValues == { 0, 1, 2 }

\* a call about to be made: of tokens_to_words with its token list, or of
\* resample_linear with its three arguments
FnCall(fn, tokens, input, from_sr, to_sr) ==
    [fn |-> fn, tokens |-> tokens, input |-> input, from_sr |-> from_sr,
     to_sr |-> to_sr, returned |-> FALSE, words |-> <<>>, output |-> <<>>]

FnIdle == FnCall("none", <<>>, <<>>, 0, 0)

\* DecodingSession::new. audio_buffer is the length of the buffer in
\* samples. Of the latest call: call is its name and arguments,
\* total_valid_frames the frames the encoder returned (0 when it did not
\* run), slice the frames handed to the decoder as <<start_frame_idx,
\* end_frame_idx>> (<<>> when none were), timestamps what the decoder
\* returned, tokens the value of advance_segment, removed the samples that
\* commit_to drained from the front of the buffer.
SesNew ==
    [encoder_cursor |-> 0,
     buffer_start_frame |-> 0,
     audio_buffer |-> 0,
     last_token |-> -1,
     call |-> <<"new">>,
     total_valid_frames |-> 0,
     slice |-> <<>>,
     timestamps |-> <<>>,
     tokens |-> <<>>,
     removed |-> 0]

\* StreamingPipeline::new, and no thread spawned yet. running is the shared
\* flag, tx_alive says that the recorder still holds the Sender of the
\* fanout channel, channel counts the frames in the channel, sent the frames
\* sent in all, ring the frames' worth of samples in the ring buffer. ingest
\* and decode are the positions of the two threads, batch that of the
\* offline transcription of the session, which holds the model lock while
\* it is "running"; model_held says that the decode thread holds it.
ThrIdle ==
    [running |-> FALSE,
     tx_alive |-> TRUE,
     channel |-> 0,
     sent |-> 0,
     ring |-> 0,
     ingest |-> "unspawned",
     decode |-> "unspawned",
     batch |-> "idle",
     model_held |-> FALSE]

\* the locks of SpeechEngine
Locks == { "status", "model", "last_use" }

\* the threads that take them: a batch transcription caller, the loader it
\* spawns, the idle watcher, a caller of reset_model_state and the decode
\* thread of a streaming session
LkThreads == { "caller", "loader", "watcher", "resetter", "decoder" }

\* SpeechEngine::new: no lock held, every thread before its next request.
\* holder[l] is the thread that holds lock l, pc[t] the position of thread
\* t, want[t] the lock it has requested and not yet been granted; status is
\* the EngineState, model says that the slot holds a model
LkIdle ==
    [holder |-> [l \in Locks |-> "none"],
     pc |-> [t \in LkThreads |-> "idle"],
     want |-> [t \in LkThreads |-> "none"],
     status |-> "Unloaded",
     model |-> FALSE]

\* the words of an utterance, in order
Letters == <<"a", "b", "c", "d">>

\* the text of the first n words, as words_to_text joins them
RECURSIVE Utterance(_)
Utterance(n) ==
    IF n = 0 THEN <<>>
    ELSE IF n = 1 THEN <<Letters[1]>>
    ELSE Utterance(n - 1) \o <<" ", Letters[n]>>

\* a session of the global-shortcut path after start_recording_async:
\* reset_buffer has cleared the transcription buffer, Recorder::start has
\* cleared streamed_any. words is the number of words spoken, offline the
\* text the offline transcription returns. buffer is TRANSCRIPTION_BUFFER,
\* queue the texts pushed to the typing queue, in order. emitted counts the
\* stable patches the decode thread has handed to on_update, shown the words
\* of the volatile patches so far; pc is the position of the thread of
\* stop_recording_async inside append_offline_suffix, current its copy of
\* the buffer.
TypSession(words, offline) ==
    [words |-> words,
     offline |-> offline,
     buffer |-> <<>>,
     queue |-> <<>>,
     streamed_any |-> FALSE,
     emitted |-> 0,
     shown |-> 0,
     pc |-> "idle",
     current |-> <<>>]

TypIdle == TypSession(1, Utterance(1))

\* the shortcut not pressed, the recorder Idle, no task spawned. down is
\* the state of the key, presses counts the Pressed events, is_recording is
\* Recorder.is_recording, start_tasks and stop_tasks count the tasks of
\* start_recording_async and the threads of stop_recording_async that have
\* not yet called the recorder, result is what the latest such call
\* returned.
KeyIdle ==
    [down |-> FALSE,
     presses |-> 0,
     is_recording |-> FALSE,
     start_tasks |-> 0,
     stop_tasks |-> 0,
     result |-> "none"]

\* the components of app_vars before anything has run
AppIdle ==
    /\ thr = ThrIdle
    /\ lk = LkIdle
    /\ typ = TypIdle
    /\ key = KeyIdle

\* the components of ext_vars before anything has run
ExtIdle ==
    /\ fan = FanIdle(FALSE)
    /\ dl = DlIdle(1, FALSE, 0)
    /\ prog = ProgIdle
    /\ fnv = FnIdle
    /\ ses = SesNew
    /\ AppIdle

\* WordHypothesisManager::new
MgrFieldsInit ==
    /\ committed = <<>>
    /\ current_draft = <<>>
    /\ history = <<>>
    /\ emitted_committed_len = 0
    /\ current_audio_ms = 0
    /\ last = NoCall

\* StreamingPipeline::new, DecodingSession::new; blank token is -1 until run
PipeFieldsInit ==
    /\ running = FALSE
    /\ decode_pc = "idle"
    /\ encoder_cursor = 0
    /\ last_token = -1
    /\ stable_log = <<>>
    /\ prior_lens = <<>>
    /\ tick_out = <<>>

MgrInit ==
    /\ config \in Configs
    /\ MgrFieldsInit
    /\ PipeFieldsInit
    /\ rec = RecIdle
    /\ eng = EngIdle
    /\ dec = DecIdle(PlainConfig)
    /\ ExtIdle

\* the assignments of one update_draft call
ApplyUpdateDraft(new_words, audio_ms) ==
    LET r == update_draft(config, committed, history, new_words, audio_ms)
    IN /\ committed' = r.committed
       /\ current_draft' = r.current_draft
       /\ history' = r.history
       /\ current_audio_ms' = audio_ms
       /\ last' = [op |-> "update_draft", new_words |-> new_words,
                   rule |-> r.rule, to_commit |-> r.to_commit, ret |-> r.ret,
                   prior_len |-> emitted_committed_len,
                   pre_len |-> Len(committed),
                   stable_len |-> Len(r.stable_prefix)]

\* manager.update_draft(new_words, current_audio_ms)
UpdateDraft ==
    /\ Len(committed) < MaxCommitted
    /\ \E new_words \in Drafts, audio_ms \in AudioTimes :
          /\ audio_ms >= current_audio_ms
          /\ ApplyUpdateDraft(new_words, audio_ms)
    /\ UNCHANGED <<config, emitted_committed_len>>
    /\ UNCHANGED pipe_vars
    /\ UNCHANGED comp_vars

\* manager.take_newly_committed()
TakeNewlyCommitted ==
    LET r == take_newly_committed(committed, emitted_committed_len)
    IN /\ last.op = "update_draft"
       /\ emitted_committed_len' = r.emitted
       /\ last' = [op |-> "take_newly_committed", new_words |-> <<>>,
                   rule |-> "none", to_commit |-> <<>>, ret |-> r.ret,
                   prior_len |-> emitted_committed_len,
                   pre_len |-> Len(committed), stable_len |-> 0]
       /\ UNCHANGED <<config, committed, current_draft, history, current_audio_ms>>
       /\ UNCHANGED pipe_vars
       /\ UNCHANGED comp_vars

MgrNext == UpdateDraft \/ TakeNewlyCommitted

MgrSpec == MgrInit /\ [][MgrNext]_vars

----------------------------------------------------------------------------
(* The decode thread of one streaming session (Spec) *)

\* u32::MAX as usize, the end offset of a volatile patch; kept symbolic
\* because it exceeds the integers of the model checker
U32_MAX == "u32::MAX"

\* TranscriptionPatch
Patch(start, end, text, stable) ==
    [start |-> start, end |-> end, text |-> text, stable |-> stable]

\* the stable patch the decode loop builds from take_newly_committed's text
StablePatch(new_committed) == Patch(0, 0, new_committed, TRUE)

\* a patch over the whole preview that consumers would commit
UiPatch_Stable(full_text) == Patch(0, U32_MAX, full_text, TRUE)

\* the volatile patch of a tick
UiPatch(full_text) == Patch(0, U32_MAX, full_text, FALSE)

\* a final patch that carries the draft text as it is
FinalPatch_NoSpace(remaining_text) == Patch(0, 0, remaining_text, TRUE)

\* the final patch built when the decode loop has ended
FinalPatch(remaining_text) == Patch(0, 0, <<" ">> \o TrimStart(remaining_text), TRUE)

\* a word the decoding session can report: its first frame is encoder_cursor
\* plus an offset >= 0
Decodable(ws) ==
    \A i \in 1..Len(ws) : ws[i].t0_ms >= encoder_cursor * FRAME_DURATION_MS

Init ==
    /\ config = DefaultConfig
    /\ MgrFieldsInit
    /\ PipeFieldsInit
    /\ rec = RecIdle
    /\ eng = EngIdle
    /\ dec = DecIdle(PlainConfig)
    /\ ExtIdle

\* StreamingPipeline::start: sets the flag and spawns the decode thread
StartPipeline ==
    /\ decode_pc = "idle"
    /\ running' = TRUE
    /\ decode_pc' = "loop"
    /\ UNCHANGED mgr_vars
    /\ UNCHANGED <<encoder_cursor, last_token, stable_log, prior_lens, tick_out>>
    /\ UNCHANGED comp_vars

\* StreamingPipeline::stop, or the ingest thread seeing its channel closed
StopPipeline ==
    /\ running
    /\ running' = FALSE
    /\ UNCHANGED mgr_vars
    /\ UNCHANGED <<decode_pc, encoder_cursor, last_token, stable_log, prior_lens,
                   tick_out>>
    /\ UNCHANGED comp_vars

\* DecodingSession::commit_to, as far as the cursor and last token go
CommitTo(ret) ==
    IF ret # <<>> /\ ret[1] > encoder_cursor
    THEN /\ encoder_cursor' = ret[1]
         /\ last_token' = ret[2]
    ELSE UNCHANGED <<encoder_cursor, last_token>>

\* one iteration of the decode loop that decoded new tokens: update_draft,
\* commit_to, take_newly_committed, the stable patch, the volatile patch
DecodeTick ==
    /\ decode_pc = "loop"
    /\ running
    /\ Len(committed) < MaxCommitted
    /\ \E new_words \in Drafts, audio_ms \in AudioTimes :
          /\ Decodable(new_words)
          /\ audio_ms >= current_audio_ms
          /\ LET r == update_draft(config, committed, history, new_words, audio_ms)
                 t == take_newly_committed(r.committed, emitted_committed_len)
                 stable == IF t.ret.some THEN <<StablePatch(t.ret.text)>> ELSE <<>>
                 ui == UiPatch(get_full_text(r.committed, r.current_draft))
             IN /\ ApplyUpdateDraft(new_words, audio_ms)
                /\ CommitTo(r.ret)
                /\ emitted_committed_len' = t.emitted
                /\ stable_log' = stable_log \o stable
                /\ prior_lens' = IF t.ret.some
                                 THEN Append(prior_lens, emitted_committed_len)
                                 ELSE prior_lens
                /\ tick_out' = stable \o <<ui>>
    /\ UNCHANGED <<config, running, decode_pc>>
    /\ UNCHANGED comp_vars

\* the code after the decode loop: the final flush of the remaining draft
FinalFlush ==
    LET remaining_text == get_draft_only_text(current_draft)
        final == IF remaining_text # <<>> THEN <<FinalPatch(remaining_text)>> ELSE <<>>
    IN /\ stable_log' = stable_log \o final
       /\ prior_lens' = IF remaining_text # <<>>
                        THEN Append(prior_lens, emitted_committed_len)
                        ELSE prior_lens
       /\ tick_out' = final
       /\ decode_pc' = "done"
       /\ UNCHANGED mgr_vars
       /\ UNCHANGED <<encoder_cursor, last_token>>
       /\ UNCHANGED comp_vars

\* the loop condition reads running = false
DecodeExit ==
    /\ decode_pc = "loop"
    /\ ~running
    /\ FinalFlush
    /\ UNCHANGED running

\* the model lock is poisoned: the loop is left by break
DecodePoisoned ==
    /\ decode_pc = "loop"
    /\ running
    /\ FinalFlush
    /\ UNCHANGED running

Next == StartPipeline \/ StopPipeline \/ DecodeTick \/ DecodeExit \/ DecodePoisoned

Spec == Init /\ [][Next]_vars

----------------------------------------------------------------------------
(* The recorder singleton, its callers and its capture workers (RecSpec)   *)
(* rec.is_recording, rec.cmd_tx, rec.worker_handle and                     *)
(* rec.processed_samples are the fields of Recorder (a stored sender or    *)
(* handle is the worker it belongs to; processed_samples is 0 for an empty *)
(* buffer and 1 otherwise), as are rec.streamed_any and rec.overrun_count  *)
(* (0 for zero, 1 for a positive count). rec.wstate[w] is the position of  *)
(* worker w,                                                               *)
(* rec.stop_sent[w] says that AudioCmd::Stop is in w's command channel,    *)
(* rec.init_err[w] is the RecordingError with which w's initialisation     *)
(* returned early ("none" when it did not, and once the start() that       *)
(* spawned w has returned), rec.captured[w] is 1 when the processed_local  *)
(* that w stored on its way out held samples and a stop() called on w has  *)
(* not returned yet, rec.pc[t] is the position of caller t inside start()  *)
(* or stop(), rec.my[t] its local worker handle, rec.called_on[t] the      *)
(* worker whose handle was stored when its stop() in progress began (0     *)
(* when none was), rec.result[t] what its last call returned.              *)

RecInit ==
    /\ rec = RecIdle
    /\ eng = EngIdle
    /\ dec = DecIdle(PlainConfig)
    /\ ExtIdle
    /\ config = DefaultConfig
    /\ MgrFieldsInit
    /\ PipeFieldsInit

RecStep(r) ==
    /\ rec' = r
    /\ UNCHANGED eng
    /\ UNCHANGED dec
    /\ UNCHANGED ext_vars
    /\ UNCHANGED mgr_vars
    /\ UNCHANGED pipe_vars

Alive(w) == rec.wstate[w] \in { "init", "signalled", "running", "stopping" }

\* a start() that resets the session before it looks at the flag
StartSwap_ResetFirst(t) ==
    /\ rec.pc[t] = "idle"
    /\ rec.spawned + Cardinality({ u \in Callers : rec.pc[u] = "s_spawn" }) < MaxWorkers
    /\ LET r == [rec EXCEPT !.processed_samples = 0, !.streamed_any = FALSE,
                            !.overrun_count = 0]
       IN IF rec.is_recording
          THEN RecStep([r EXCEPT !.result[t] = "AlreadyRecording"])
          ELSE RecStep([r EXCEPT !.is_recording = TRUE, !.pc[t] = "s_spawn", !.result[t] = "none"])

\* start(): is_recording.swap(true); AlreadyRecording when it was set
StartSwap(t) ==
    /\ rec.pc[t] = "idle"
    /\ rec.spawned + Cardinality({ u \in Callers : rec.pc[u] = "s_spawn" }) < MaxWorkers
    /\ IF rec.is_recording
       THEN RecStep([rec EXCEPT !.result[t] = "AlreadyRecording"])
       ELSE RecStep([rec EXCEPT !.is_recording = TRUE, !.pc[t] = "s_spawn",
                                !.result[t] = "none"])

\* start(): the buffer is cleared, streamed_any and overrun_count are reset
\* and the worker thread is spawned
StartSpawn(t) ==
    /\ rec.pc[t] = "s_spawn"
    /\ LET w == rec.spawned + 1
       IN RecStep([rec EXCEPT !.processed_samples = 0, !.streamed_any = FALSE,
                              !.overrun_count = 0, !.spawned = w,
                              !.wstate[w] = "init", !.my[t] = w,
                              !.pc[t] = "s_wait"])

\* start(): init_rx.recv_timeout returns Ok(Ok(()))
StartInitOk(t) ==
    /\ rec.pc[t] = "s_wait"
    /\ rec.wstate[rec.my[t]] \in { "signalled", "running", "stopping", "exited_after_signal" }
    /\ RecStep([rec EXCEPT !.pc[t] = "s_store_tx"])

\* a failure arm that forgets is_recording.store(false)
StartInitFailed_KeepFlag(t) ==
    /\ rec.pc[t] = "s_wait"
    /\ rec.wstate[rec.my[t]] \in { "init", "exited" }
    /\ RecStep([rec EXCEPT !.pc[t] = "s_join"])

\* start(): recv_timeout returns Disconnected (the worker ended without
\* sending) or Timeout (it has not sent yet); is_recording.store(false).
\* The worker never sends Err, so the arm Ok(Err(e)) is not taken.
StartInitFailed(t) ==
    /\ rec.pc[t] = "s_wait"
    /\ rec.wstate[rec.my[t]] \in { "init", "exited" }
    /\ RecStep([rec EXCEPT !.is_recording = FALSE, !.pc[t] = "s_join"])

\* start(): *self.cmd_tx.lock() = Some(cmd_tx)
StartStoreTx(t) ==
    /\ rec.pc[t] = "s_store_tx"
    /\ RecStep([rec EXCEPT !.cmd_tx = rec.my[t], !.pc[t] = "s_store_handle"])

\* start(): *self.worker_handle.lock() = Some(handle); returns Ok(())
StartStoreHandle(t) ==
    /\ rec.pc[t] = "s_store_handle"
    /\ RecStep([rec EXCEPT !.worker_handle = rec.my[t], !.pc[t] = "idle",
                            !.my[t] = 0, !.result[t] = "Ok"])

WorkerEnded(w) == rec.wstate[w] \in { "exited", "exited_after_signal" }

\* start(): handle.join() returns; the result of recv_timeout was Timeout
\* or Disconnected, so start returns ThreadError
StartJoined(t) ==
    /\ rec.pc[t] = "s_join"
    /\ WorkerEnded(rec.my[t])
    /\ RecStep([rec EXCEPT !.pc[t] = "idle", !.my[t] = 0,
                            !.init_err[rec.my[t]] = "none",
                            !.result[t] = "ThreadError"])

\* stop(): is_recording.compare_exchange(true, false); NotRecording on failure
StopCas(t) ==
    /\ rec.pc[t] = "idle"
    /\ rec.spawned > 0
    /\ IF rec.is_recording
       THEN RecStep([rec EXCEPT !.is_recording = FALSE, !.pc[t] = "p_take_tx",
                                !.called_on[t] = rec.worker_handle,
                                !.result[t] = "none"])
       ELSE RecStep([rec EXCEPT !.result[t] = "NotRecording"])

\* stop(): cmd_tx.take(); tx.send(AudioCmd::Stop) when a sender was stored
StopTakeTx(t) ==
    /\ rec.pc[t] = "p_take_tx"
    /\ IF rec.cmd_tx # 0
       THEN RecStep([rec EXCEPT !.stop_sent[rec.cmd_tx] = TRUE, !.cmd_tx = 0,
                                !.pc[t] = "p_take_handle"])
       ELSE RecStep([rec EXCEPT !.pc[t] = "p_take_handle"])

\* stop(): worker_handle.take()
StopTakeHandle(t) ==
    /\ rec.pc[t] = "p_take_handle"
    /\ RecStep([rec EXCEPT !.my[t] = rec.worker_handle, !.worker_handle = 0,
                            !.pc[t] = "p_join"])

\* stop(): handle.join() returns (or there was no handle); the samples are
\* taken: NoAudioCaptured when the buffer is empty
StopJoined(t) ==
    /\ rec.pc[t] = "p_join"
    /\ rec.my[t] # 0 => WorkerEnded(rec.my[t])
    /\ RecStep([rec EXCEPT !.processed_samples = 0, !.pc[t] = "idle", !.my[t] = 0,
                            !.called_on[t] = 0,
                            !.captured = [w \in Workers |->
                                            IF w = rec.called_on[t] THEN 0
                                            ELSE rec.captured[w]],
                            !.result[t] = IF rec.processed_samples = 0
                                          THEN "NoAudioCaptured" ELSE "Ok"])

\* init_and_run_audio_thread: device, config, stream and play succeed;
\* init_tx.send(Ok(()))
WorkerInitOk(w) ==
    /\ rec.wstate[w] = "init"
    /\ RecStep([rec EXCEPT !.wstate[w] = "signalled"])

\* the errors the ? operators of the initialisation can return
InitErrors == { "NoInputDevice", "Device" }

\* init_and_run_audio_thread: one of the ? operators before the send returns
\* the error to the spawned closure, which logs it; nothing is sent on
\* init_tx, which is dropped
WorkerInitErr(w) ==
    /\ rec.wstate[w] = "init"
    /\ \E e \in InitErrors :
          RecStep([rec EXCEPT !.wstate[w] = "exited", !.init_err[w] = e])

\* AudioProcessor::new after the send: Ok enters the loop, Err returns
WorkerProcessor(w) ==
    /\ rec.wstate[w] = "signalled"
    /\ \E ok \in BOOLEAN :
          RecStep([rec EXCEPT !.wstate[w] = IF ok THEN "running"
                                           ELSE "exited_after_signal"])

\* the loop's try_recv yields Ok(AudioCmd::Stop): stopping = true, the stream
\* is dropped (a closed command channel does not stop the loop)
WorkerStop(w) ==
    /\ rec.wstate[w] = "running"
    /\ rec.stop_sent[w]
    /\ RecStep([rec EXCEPT !.wstate[w] = "stopping"])

\* stopping and the ring buffer drained: flush, *guard = processed_local
\* (n = 1 when the callback enqueued samples before the stream was dropped)
WorkerFinish(w) ==
    /\ rec.wstate[w] = "stopping"
    /\ \E n \in { 0, 1 } :
          RecStep([rec EXCEPT !.wstate[w] = "exited_after_signal",
                              !.processed_samples = n,
                              !.captured[w] =
                                  IF \E t \in Callers : rec.called_on[t] = w
                                  THEN n ELSE 0])

\* the input callback of w's stream finds the ring buffer full:
\* overrun_count.fetch_add(1)
WorkerOverrun(w) ==
    /\ rec.wstate[w] \in { "signalled", "running" }
    /\ rec.overrun_count = 0
    /\ RecStep([rec EXCEPT !.overrun_count = 1])

\* the on_update callback of the streaming pipeline receives a patch with
\* text while a worker captures: Recorder::mark_streamed_any
MarkStreamedAny ==
    /\ \E w \in Workers : rec.wstate[w] \in { "running", "stopping" }
    /\ ~rec.streamed_any
    /\ RecStep([rec EXCEPT !.streamed_any = TRUE])

RecNext ==
    \/ \E t \in Callers :
          \/ StartSwap(t) \/ StartSpawn(t) \/ StartInitOk(t) \/ StartInitFailed(t)
          \/ StartStoreTx(t) \/ StartStoreHandle(t) \/ StartJoined(t)
          \/ StopCas(t) \/ StopTakeTx(t) \/ StopTakeHandle(t) \/ StopJoined(t)
    \/ \E w \in Workers :
          \/ WorkerInitOk(w) \/ WorkerInitErr(w) \/ WorkerProcessor(w)
          \/ WorkerStop(w) \/ WorkerFinish(w) \/ WorkerOverrun(w)
    \/ MarkStreamedAny

RecSpec == RecInit /\ [][RecNext]_vars

----------------------------------------------------------------------------
(* The speech engine, its callers, loaders and idle watcher (EngSpec)      *)
(* eng.status is the EngineState under the status mutex ("Failed" stands   *)
(* for Failed(msg)), eng.model says that the model slot holds Some(model), *)
(* eng.model_held that a batch transcription holds the model write lock,   *)
(* eng.status_held that the idle watcher holds the status mutex while it   *)
(* waits for the model lock. eng.now is the clock in seconds, eng.last_use *)
(* the instant stored by update_last_use, eng.last_activity the instant of *)
(* the latest transcription activity, batch or streaming (history          *)
(* variable). eng.lstate[l] is the position of loader l, eng.pc[c] the     *)
(* position of caller c, eng.kind[c] the call it makes, eng.woken[c] that  *)
(* notify_all has reached its wait, eng.result[c] what its last call       *)
(* returned. eng.wpc is the position of the idle watcher, eng.w_due that   *)
(* its sleep has ended, eng.w_elapsed the elapsed time it has read.        *)

EngInit ==
    /\ eng = EngIdle
    /\ dec = DecIdle(PlainConfig)
    /\ ExtIdle
    /\ rec = RecIdle
    /\ config = DefaultConfig
    /\ MgrFieldsInit
    /\ PipeFieldsInit

EngStep(e) ==
    /\ eng' = [e EXCEPT !.kind = [c \in EngCallers |->
                                    IF e.pc[c] = "idle" THEN "none" ELSE e.kind[c]]]
    /\ UNCHANGED rec
    /\ UNCHANGED dec
    /\ UNCHANGED ext_vars
    /\ UNCHANGED mgr_vars
    /\ UNCHANGED pipe_vars

\* where a call goes once ensure_model_loaded has returned Ok
AfterEnsureOk(c, k) == IF k = "transcribe" THEN "t_lock" ELSE "idle"

\* the waiters that notify_all wakes
NotifyAll(woken) ==
    [c \in EngCallers |-> woken[c] \/ eng.pc[c] \in { "wait_first", "wait_loop" }]

\* an entry that takes a load in progress for no load at all
EnsureEnter_IgnoreLoading(c, k) ==
    /\ eng.pc[c] = "idle"
    /\ ~eng.status_held
    /\ eng.status = "Loaded" \/ eng.spawned + Cardinality({ d \in EngCallers : eng.pc[d] = "spawn" }) < MaxLoaders
    /\ IF eng.status = "Loaded"
       THEN EngStep([eng EXCEPT !.last_use = eng.now, !.kind[c] = k,
                                !.result[c] = IF k = "ensure" THEN "Ok" ELSE "none",
                                !.pc[c] = AfterEnsureOk(c, k)])
       ELSE EngStep([eng EXCEPT !.last_use = eng.now, !.kind[c] = k,
                                !.result[c] = "none",
                                !.status = "Loading", !.pc[c] = "spawn"])

\* ensure_model_loaded, from update_last_use to the end of the first match:
\* Loaded returns Ok; Failed is reset to Unloaded; Unloaded becomes Loading
\* and the caller goes on to spawn the loader; Loading makes the caller wait
EnsureEnter(c, k) ==
    /\ eng.pc[c] = "idle"
    /\ ~eng.status_held
    /\ CASE eng.status = "Loaded" ->
              EngStep([eng EXCEPT !.last_use = eng.now, !.kind[c] = k,
                                  !.result[c] = IF k = "ensure" THEN "Ok" ELSE "none",
                                  !.pc[c] = AfterEnsureOk(c, k)])
         [] eng.status = "Loading" ->
              EngStep([eng EXCEPT !.last_use = eng.now, !.kind[c] = k,
                                  !.result[c] = "none", !.woken[c] = FALSE,
                                  !.pc[c] = "wait_first"])
         [] OTHER ->
              /\ eng.spawned + Cardinality({ d \in EngCallers : eng.pc[d] = "spawn" })
                    < MaxLoaders
              /\ EngStep([eng EXCEPT !.last_use = eng.now, !.kind[c] = k,
                                     !.result[c] = "none",
                                     !.status = "Loading", !.pc[c] = "spawn"])

\* ensure_model_loaded: thread::spawn of the loader; the caller then locks
\* status and enters its loop
EnsureSpawn(c) ==
    /\ eng.pc[c] = "spawn"
    /\ LET l == eng.spawned + 1
       IN EngStep([eng EXCEPT !.spawned = l, !.lstate[l] = "init",
                              !.woken[c] = TRUE, !.pc[c] = "wait_loop"])

\* the waiter of the first match wakes without timing out (notify_all, or a
\* wakeup of the condition variable without one) and looks at status once
FirstWake(c) ==
    /\ eng.pc[c] = "wait_first"
    /\ ~eng.status_held
    /\ CASE eng.status = "Loaded" ->
              EngStep([eng EXCEPT !.woken[c] = FALSE,
                                  !.result[c] = IF eng.kind[c] = "ensure" THEN "Ok" ELSE "none",
                                  !.pc[c] = AfterEnsureOk(c, eng.kind[c])])
         [] eng.status = "Failed" ->
              EngStep([eng EXCEPT !.woken[c] = FALSE, !.result[c] = "LoadFailed",
                                  !.pc[c] = "idle"])
         [] OTHER ->
              EngStep([eng EXCEPT !.woken[c] = FALSE,
                                  !.result[c] = "InvalidAfterWait", !.pc[c] = "idle"])

\* wait_timeout returns timed out: "Model load timed out"
WaitTimeout(c) ==
    /\ eng.pc[c] \in { "wait_first", "wait_loop" }
    /\ ~eng.woken[c]
    /\ ~eng.status_held
    /\ EngStep([eng EXCEPT !.result[c] = "TimedOut", !.pc[c] = "idle"])

\* the loop of the caller that spawned the loader looks at status: Loaded
\* returns Ok, Failed the error, Unloaded "Unexpected state"; Loading waits
LoopExamine(c) ==
    /\ eng.pc[c] = "wait_loop"
    /\ ~eng.status_held
    /\ CASE eng.status = "Loaded" ->
              EngStep([eng EXCEPT !.woken[c] = FALSE,
                                  !.result[c] = IF eng.kind[c] = "ensure" THEN "Ok" ELSE "none",
                                  !.pc[c] = AfterEnsureOk(c, eng.kind[c])])
         [] eng.status = "Failed" ->
              EngStep([eng EXCEPT !.woken[c] = FALSE, !.result[c] = "LoadFailed",
                                  !.pc[c] = "idle"])
         [] eng.status = "Unloaded" ->
              EngStep([eng EXCEPT !.woken[c] = FALSE, !.result[c] = "UnexpectedState",
                                  !.pc[c] = "idle"])
         [] OTHER ->
              /\ eng.woken[c]
              /\ EngStep([eng EXCEPT !.woken[c] = FALSE])

\* loader, init_model returned Ok: *model_guard = Some(loaded_model)
LoaderStoreModel(l) ==
    /\ eng.lstate[l] = "init"
    /\ ~eng.model_held
    /\ EngStep([eng EXCEPT !.model = TRUE, !.lstate[l] = "stored"])

\* loader: *s = Loaded and notify_all, under the status mutex
LoaderPublish(l) ==
    /\ eng.lstate[l] = "stored"
    /\ ~eng.status_held
    /\ EngStep([eng EXCEPT !.status = "Loaded", !.lstate[l] = "done",
                           !.woken = NotifyAll(eng.woken)])

\* loader, init_model returned Err: *s = Failed(msg); the mutex is released
LoaderFail(l) ==
    /\ eng.lstate[l] = "init"
    /\ ~eng.status_held
    /\ EngStep([eng EXCEPT !.status = "Failed", !.lstate[l] = "failed"])

\* loader, Err arm: notify_all after the mutex was released
LoaderNotify(l) ==
    /\ eng.lstate[l] = "failed"
    /\ EngStep([eng EXCEPT !.lstate[l] = "done", !.woken = NotifyAll(eng.woken)])

\* transcribe_samples_inner after ensure_model_loaded: model.write(); None
\* returns "not loaded yet"; otherwise update_last_use and transcription starts
TranscribeLock(c) ==
    /\ eng.pc[c] = "t_lock"
    /\ ~eng.model_held
    /\ IF eng.model
       THEN EngStep([eng EXCEPT !.model_held = TRUE, !.last_use = eng.now,
                                !.last_activity = eng.now, !.pc[c] = "t_run"])
       ELSE EngStep([eng EXCEPT !.result[c] = "NotLoaded", !.pc[c] = "idle"])

\* transcribe_samples_ref returns; the model lock is released
TranscribeDone(c) ==
    /\ eng.pc[c] = "t_run"
    /\ EngStep([eng EXCEPT !.model_held = FALSE, !.last_activity = eng.now,
                           !.result[c] = "Ok", !.pc[c] = "idle"])

\* a tick of the streaming decode thread with the model loaded: model.write()
\* and advance_segment; last_use is not touched
StreamDecode ==
    /\ eng.model
    /\ ~eng.model_held
    /\ eng.last_activity # eng.now
    /\ EngStep([eng EXCEPT !.last_activity = eng.now])

\* WATCH_PERIOD_SECS pass; a wait_timeout of 30 s does not outlast them, nor
\* does a caller on its way to thread::spawn
EngTick ==
    /\ eng.now + WATCH_PERIOD_SECS <= MaxTicks * WATCH_PERIOD_SECS
    /\ \A c \in EngCallers : eng.pc[c] \notin { "spawn", "wait_first", "wait_loop" }
    /\ EngStep([eng EXCEPT !.now = eng.now + WATCH_PERIOD_SECS, !.w_due = TRUE])

\* idle watcher after its sleep: elapsed = last_use.elapsed(); the last_use
\* mutex is released again
WatcherRead ==
    /\ eng.wpc = "sleep"
    /\ eng.w_due
    /\ LET elapsed == eng.now - eng.last_use
       IN IF elapsed > IDLE_UNLOAD_SECS
          THEN EngStep([eng EXCEPT !.w_due = FALSE, !.w_elapsed = elapsed,
                                   !.wpc = "check"])
          ELSE EngStep([eng EXCEPT !.w_due = FALSE])

\* the watcher's unload: *m = None; *status_guard = Unloaded
Unload(e) ==
    [e EXCEPT !.model = FALSE, !.status = "Unloaded", !.status_held = FALSE,
              !.w_elapsed = 0, !.wpc = "sleep"]

\* idle watcher: status.lock(); if Loaded, model.write() and unload
WatcherCheck ==
    /\ eng.wpc = "check"
    /\ IF eng.status = "Loaded"
       THEN IF eng.model_held
            THEN EngStep([eng EXCEPT !.status_held = TRUE, !.wpc = "blocked"])
            ELSE EngStep(Unload(eng))
       ELSE EngStep([eng EXCEPT !.w_elapsed = 0, !.wpc = "sleep"])

\* idle watcher: model.write() is granted once the transcription has ended
WatcherUnblocked ==
    /\ eng.wpc = "blocked"
    /\ ~eng.model_held
    /\ EngStep(Unload(eng))

EngNext ==
    \/ \E c \in EngCallers :
          \/ \E k \in { "ensure", "transcribe" } : EnsureEnter(c, k)
          \/ EnsureSpawn(c) \/ FirstWake(c) \/ WaitTimeout(c) \/ LoopExamine(c)
          \/ TranscribeLock(c) \/ TranscribeDone(c)
    \/ \E l \in Loaders :
          \/ LoaderStoreModel(l) \/ LoaderPublish(l) \/ LoaderFail(l) \/ LoaderNotify(l)
    \/ StreamDecode
    \/ EngTick
    \/ WatcherRead \/ WatcherCheck \/ WatcherUnblocked

EngSpec == EngInit /\ [][EngNext]_vars

----------------------------------------------------------------------------
(* Batch transcriptions of one AsrModel with greedy decoding (DecSpec)     *)
(* One thread at a time holds the model (&mut self).                       *)

DecInit ==
    /\ dec \in { DecIdle(c) : c \in DecConfigs }
    /\ ExtIdle
    /\ rec = RecIdle
    /\ eng = EngIdle
    /\ config = DefaultConfig
    /\ MgrFieldsInit
    /\ PipeFieldsInit

DecStep(d) ==
    /\ dec' = d
    /\ UNCHANGED rec
    /\ UNCHANGED eng
    /\ UNCHANGED ext_vars
    /\ UNCHANGED mgr_vars
    /\ UNCHANGED pipe_vars

\* the fields of a transcription in progress, once it has returned
DecReturned(d, r) ==
    [d EXCEPT !.pc = "idle", !.enc = <<>>, !.state = ZeroState,
              !.last_token = blank_idx, !.t = 0, !.n = 0, !.tokens = <<>>,
              !.timestamps = <<>>, !.fresh = FALSE, !.dirty = FALSE,
              !.result = r]

\* SpeechEngine::reset_model_state: AsrModel::reset_state between two calls
ResetState ==
    /\ dec.pc = "idle"
    /\ DecStep(reset_state(dec))

\* transcribe_samples_ref up to the start of decode_sequence: reset_state
\* unless reuse_workspace; preprocess and encode give e; recognize_batch takes
\* the cached workspace and builds the session from it, or from a new
\* workspace, and from cached_last_token
TranscribeBegin(reuse_workspace, e) ==
    /\ dec.pc = "idle"
    /\ LET d == IF reuse_workspace THEN dec ELSE reset_state(dec)
       IN DecStep([d EXCEPT
             !.pc = "decoding",
             !.enc = e,
             !.state = IF d.cached_workspace = <<>>
                       THEN ZeroState ELSE d.cached_workspace[1],
             !.last_token = d.cached_last_token,
             !.cached_workspace = <<>>,
             !.t = 0, !.n = 0, !.tokens = <<>>, !.timestamps = <<>>,
             !.fresh = d.was_reset,
             !.dirty = ~reuse_workspace /\ dec.cached_last_token # blank_idx,
             !.was_reset = FALSE,
             !.result = "none"])

\* decode_sequence_greedy, one pass of the inner loop at frame t: step_scores;
\* a blank breaks to the next frame; a token is pushed with its frame, the
\* state and the last token are adopted, and the inner loop goes on up to
\* max_tokens passes
GreedyStep ==
    /\ dec.pc = "decoding"
    /\ dec.t < Len(dec.enc)
    /\ LET target == IF dec.tokens = <<>> THEN dec.last_token
                     ELSE dec.tokens[Len(dec.tokens)]
           s == step_scores(dec.enc[dec.t + 1], target, dec.state, dec.cfg)
           token == IF s.top_tokens # <<>> /\ s.top_tokens[1][2] > s.blank_score
                    THEN s.top_tokens[1][1] ELSE blank_idx
           more == dec.n + 1 < MaxTokens(dec.cfg)
       IN IF token = blank_idx
          THEN DecStep([dec EXCEPT !.t = dec.t + 1, !.n = 0])
          ELSE DecStep([dec EXCEPT
                  !.state = s.output_state,
                  !.last_token = token,
                  !.tokens = Append(dec.tokens, token),
                  !.timestamps = Append(dec.timestamps, dec.t),
                  !.t = IF more THEN dec.t ELSE dec.t + 1,
                  !.n = IF more THEN dec.n + 1 ELSE 0])

\* step_scores returns Err (the inference fails): recognize_batch returns the
\* error; the workspace it took is dropped with the session
StepFails ==
    /\ dec.pc = "decoding"
    /\ dec.t < Len(dec.enc)
    /\ DecStep([DecReturned(dec, "Err") EXCEPT !.pair = FALSE])

\* decode_sequence_greedy returns Ok((tokens, timestamps)); recognize_batch
\* caches the workspace and the last token of the session
TranscribeEnd ==
    /\ dec.pc = "decoding"
    /\ dec.t = Len(dec.enc)
    /\ DecStep([DecReturned(dec, "Ok") EXCEPT
          !.cached_workspace = << dec.state >>,
          !.cached_last_token = dec.last_token,
          !.prev = IF dec.fresh
                   THEN [enc |-> dec.enc, dirty |-> dec.dirty,
                         tokens |-> dec.tokens, timestamps |-> dec.timestamps]
                   ELSE dec.prev,
          !.pair = /\ dec.fresh
                   /\ dec.prev.dirty
                   /\ dec.prev.enc = dec.enc])

DecNext ==
    \/ ResetState
    \/ \E reuse_workspace \in BOOLEAN, e \in Encodings :
          TranscribeBegin(reuse_workspace, e)
    \/ GreedyStep
    \/ StepFails
    \/ TranscribeEnd

DecSpec == DecInit /\ [][DecNext]_vars

----------------------------------------------------------------------------
(* The frames of one recording session (FanSpec)                           *)
(*                                                                         *)
(* The capture loop of init_and_run_audio_thread after its initialisation, *)
(* one loop iteration a step, with the input callback of the stream, the   *)
(* stop() that ends the session and the holder of the channel's Receiver.  *)

FanInit ==
    /\ fan \in { FanIdle(tx) : tx \in BOOLEAN }
    /\ dl = DlIdle(1, FALSE, 0)
    /\ prog = ProgIdle
    /\ fnv = FnIdle
    /\ ses = SesNew
    /\ AppIdle
    /\ rec = RecIdle
    /\ eng = EngIdle
    /\ dec = DecIdle(PlainConfig)
    /\ config = DefaultConfig
    /\ MgrFieldsInit
    /\ PipeFieldsInit

FanStep(f) ==
    /\ fan' = f
    /\ UNCHANGED <<rec, eng, dec, dl, prog, fnv, ses>>
    /\ UNCHANGED app_vars
    /\ UNCHANGED mgr_vars
    /\ UNCHANGED pipe_vars

\* the closure handed to process and flush, for the next k frames: the
\* frame's samples are appended to processed_local, then the frame is sent
\* when there is a sender; a send to a channel whose Receiver is gone fails
\* and its result is ignored
RECURSIVE dispatch(_, _)
dispatch(f, k) ==
    IF k = 0 THEN f
    ELSE LET frame == f.emitted + 1
             g == [f EXCEPT !.emitted = frame,
                            !.processed_local = Append(@, frame),
                            !.forwarded = IF f.streaming_tx /\ f.rx_open
                                          THEN Append(@, frame) ELSE @]
         IN dispatch(g, k - 1)

\* the input callback of the playing stream enqueues a chunk
FanCallback ==
    /\ fan.stream
    /\ fan.ring < MaxChunks
    /\ FanStep([fan EXCEPT !.ring = @ + 1])

\* stop(): tx.send(AudioCmd::Stop)
FanStopSend ==
    /\ ~fan.stop_sent
    /\ FanStep([fan EXCEPT !.stop_sent = TRUE])

\* the Receiver of the fanout channel is dropped: the caller of start() does
\* not start a pipeline, or the ingest thread of the pipeline ends
ReceiverDropped ==
    /\ fan.streaming_tx
    /\ fan.rx_open
    /\ FanStep([fan EXCEPT !.rx_open = FALSE])

\* one iteration of the worker's loop: try_recv, then either a read of up
\* to 8 chunks handed to process, which emits k frames, or the break that
\* follows a Stop, or a sleep
WorkerIteration ==
    /\ fan.pc = "loop"
    /\ LET got_stop == ~fan.stopping /\ fan.stop_sent
           f == [fan EXCEPT !.stopping = @ \/ got_stop,
                            !.stream = @ /\ ~got_stop]
       IN IF f.ring >= 1
          THEN \E k \in 0..2 :
                  /\ f.emitted + k <= MaxEmitted
                  /\ FanStep([dispatch(f, k) EXCEPT
                                 !.ring = @ - (IF @ <= 8 THEN @ ELSE 8)])
          ELSE IF f.stopping
               THEN FanStep([f EXCEPT !.pc = "flush"])
               ELSE FanStep(f)

\* processor.flush with the same closure: the trailing partial frame, when
\* there is one, is emitted
WorkerFlush ==
    /\ fan.pc = "flush"
    /\ \E k \in 0..1 :
          /\ fan.emitted + k <= MaxEmitted
          /\ FanStep([dispatch(fan, k) EXCEPT !.pc = "store"])

\* *guard = processed_local; the worker returns
WorkerStores ==
    /\ fan.pc = "store"
    /\ FanStep([fan EXCEPT !.processed_samples = fan.processed_local,
                           !.pc = "done"])

\* stop(): handle.join() has returned; mem::take(processed_samples),
\* NoAudioCaptured when it is empty
FanStopReturns ==
    /\ fan.stop_sent
    /\ fan.pc = "done"
    /\ fan.result = "none"
    /\ FanStep([fan EXCEPT !.processed_samples = <<>>,
                           !.returned = fan.processed_samples,
                           !.result = IF fan.processed_samples = <<>>
                                      THEN "NoAudioCaptured" ELSE "Ok"])

FanNext ==
    \/ FanCallback
    \/ FanStopSend
    \/ ReceiverDropped
    \/ WorkerIteration
    \/ WorkerFlush
    \/ WorkerStores
    \/ FanStopReturns

FanSpec == FanInit /\ [][FanNext]_vars

----------------------------------------------------------------------------
(* The model downloader (DlSpec)                                           *)
(*                                                                         *)
(* One call of download_asset: its retry loop and, step by step, each      *)
(* try_download_resumable. The server answers as it likes: the request     *)
(* fails, the status is outside 200..299, or the status is 200 or 206 with *)
(* or without a Content-Length; the body then arrives one read at a time   *)
(* and ends with a read error or with a read of 0 bytes, at its end or     *)
(* before it.                                                              *)

MAX_RETRIES == 3

RETRY_BACKOFF_SECS == 2

DlInit ==
    /\ dl \in { DlIdle(size, tmp, tmp_len) :
                  size \in 1..MaxSize, tmp \in BOOLEAN, tmp_len \in 0..MaxSize }
    /\ dl.tmp_len <= dl.size
    /\ dl.tmp_len > 0 => dl.tmp
    /\ fan = FanIdle(FALSE)
    /\ prog = ProgIdle
    /\ fnv = FnIdle
    /\ ses = SesNew
    /\ AppIdle
    /\ rec = RecIdle
    /\ eng = EngIdle
    /\ dec = DecIdle(PlainConfig)
    /\ config = DefaultConfig
    /\ MgrFieldsInit
    /\ PipeFieldsInit

DlStep(d) ==
    /\ dl' = d
    /\ UNCHANGED <<rec, eng, dec, fan, prog, fnv, ses>>
    /\ UNCHANGED app_vars
    /\ UNCHANGED mgr_vars
    /\ UNCHANGED pipe_vars

\* a download_asset that sleeps RETRY_BACKOFF_SECS after every failure
AttemptFailed_FlatBackoff(d, err) ==
    LET e == [d EXCEPT !.last_err = err, !.log = Append(@, err)]
    IN IF d.attempt < MAX_RETRIES
       THEN [e EXCEPT !.slept = Append(@, RETRY_BACKOFF_SECS),
                      !.attempt = @ + 1, !.pc = "request"]
       ELSE [e EXCEPT !.result = err, !.pc = "done"]

\* download_asset: the arm Err(err) of an attempt that ends in state d:
\* last_err = Some(err), the sleep when an attempt is left, and after the
\* loop Err(last_err)
AttemptFailed(d, err) ==
    LET e == [d EXCEPT !.last_err = err, !.log = Append(@, err)]
    IN IF d.attempt < MAX_RETRIES
       THEN [e EXCEPT !.slept = Append(@, RETRY_BACKOFF_SECS * d.attempt),
                      !.attempt = @ + 1, !.pc = "request"]
       ELSE [e EXCEPT !.result = err, !.pc = "done"]

\* try_download_resumable up to the first read: current_len, the request
\* (with a Range header when current_len > 0), the status, total_size and
\* the opening of the temp file
DlRequest ==
    /\ dl.pc = "request"
    /\ LET current_len == IF dl.tmp THEN dl.tmp_len ELSE 0
           d == [dl EXCEPT !.current_len = current_len]
       IN \/ DlStep(AttemptFailed(d, "request failed"))
          \/ DlStep(AttemptFailed(d, "unexpected status"))
          \/ \E has_len \in BOOLEAN :
                \* 200: fs::File::create(tmp)
                \/ DlStep([d EXCEPT !.status = 200, !.has_len = has_len,
                                    !.total_size = IF has_len THEN d.size ELSE 0,
                                    !.tmp = TRUE, !.tmp_len = 0,
                                    !.downloaded = 0, !.pc = "body"])
                \* 206, the answer to a Range header: append to tmp
                \/ /\ current_len > 0
                   /\ DlStep([d EXCEPT !.status = 206, !.has_len = has_len,
                                       !.total_size =
                                           current_len + (IF has_len
                                                          THEN d.size - current_len
                                                          ELSE 0),
                                       !.downloaded = current_len, !.pc = "body"])

\* reader.read returns bytes: write_all, downloaded += bytes_read
DlRead ==
    /\ dl.pc = "body"
    /\ dl.tmp_len < dl.size
    /\ DlStep([dl EXCEPT !.tmp_len = @ + 1, !.downloaded = @ + 1])

\* reader.read returns an error
DlReadError ==
    /\ dl.pc = "body"
    /\ DlStep(AttemptFailed(dl, "read failed"))

\* reader.read returns 0, at the end of the body or when the connection has
\* closed before it: the byte-count test, then fs::rename(tmp, dest)
DlEndOfBody ==
    /\ dl.pc = "body"
    /\ IF dl.total_size > 0 /\ dl.downloaded # dl.total_size
       THEN DlStep(AttemptFailed(dl, "Incomplete download"))
       ELSE DlStep([dl EXCEPT !.dest = TRUE, !.dest_len = dl.tmp_len,
                              !.tmp = FALSE, !.tmp_len = 0,
                              !.log = Append(@, "Ok"),
                              !.result = "Ok", !.pc = "done"])

DlNext ==
    \/ DlRequest
    \/ DlRead
    \/ DlReadError
    \/ DlEndOfBody

DlSpec == DlInit /\ [][DlNext]_vars

----------------------------------------------------------------------------
(* Functions without state (FnSpec)                                        *)

FnInit ==
    /\ ses = SesNew
    /\ fnv \in { FnCall("tokens_to_words", ts, <<>>, 0, 0) :
                   ts \in UNION { TokenLists(n) : n \in 0..MaxTokenList } }
              \cup { FnCall("resample_linear", <<>>, s, r[1], r[2]) :
                        s \in UNION { [1..n -> SampleValues] : n \in 0..MaxSamples },
                        r \in (0..MaxRate) \X (0..MaxRate) }
    /\ fan = FanIdle(FALSE)
    /\ dl = DlIdle(1, FALSE, 0)
    /\ prog = ProgIdle
    /\ AppIdle
    /\ rec = RecIdle
    /\ eng = EngIdle
    /\ dec = DecIdle(PlainConfig)
    /\ config = DefaultConfig
    /\ MgrFieldsInit
    /\ PipeFieldsInit

FnStep(f) ==
    /\ fnv' = f
    /\ UNCHANGED <<rec, eng, dec, fan, dl, prog, ses>>
    /\ UNCHANGED app_vars
    /\ UNCHANGED mgr_vars
    /\ UNCHANGED pipe_vars

TokensToWords ==
    /\ fnv.fn = "tokens_to_words"
    /\ ~fnv.returned
    /\ FnStep([fnv EXCEPT !.returned = TRUE,
                           !.words = tokens_to_words(fnv.tokens)])

ResampleLinear ==
    /\ fnv.fn = "resample_linear"
    /\ ~fnv.returned
    /\ FnStep([fnv EXCEPT !.returned = TRUE,
                           !.output = resample_linear(fnv.input, fnv.from_sr,
                                                      fnv.to_sr)])

FnNext == TokensToWords \/ ResampleLinear

FnSpec == FnInit /\ [][FnNext]_vars

----------------------------------------------------------------------------
(* The download-progress record (ProgSpec)                                 *)
(*                                                                         *)
(* The functions of asr/download_progress.rs, called in any order with any *)
(* arguments; each holds the mutex of the record for its whole body.       *)

ProgInit ==
    /\ prog = ProgIdle
    /\ fan = FanIdle(FALSE)
    /\ dl = DlIdle(1, FALSE, 0)
    /\ fnv = FnIdle
    /\ ses = SesNew
    /\ AppIdle
    /\ rec = RecIdle
    /\ eng = EngIdle
    /\ dec = DecIdle(PlainConfig)
    /\ config = DefaultConfig
    /\ MgrFieldsInit
    /\ PipeFieldsInit

ProgStep(call, p) ==
    /\ prog' = [p |-> p, call |-> call]
    /\ UNCHANGED <<rec, eng, dec, fan, dl, fnv, ses>>
    /\ UNCHANGED app_vars
    /\ UNCHANGED mgr_vars
    /\ UNCHANGED pipe_vars

\* the messages handed to record_failure
FailureMessages == { "network error", "disk full" }

StartTracking ==
    \E file_count \in 0..MaxProgress :
        ProgStep(<<"start_tracking", file_count>>,
                 [file_index |-> 0, file_count |-> file_count,
                  downloaded_bytes |-> 0, total_bytes |-> 0, done |-> FALSE,
                  error |-> "None"])

SetFileIndex ==
    \E file_index \in 0..MaxProgress :
        ProgStep(<<"set_file_index", file_index>>,
                 [prog.p EXCEPT !.file_index = file_index,
                                !.downloaded_bytes = 0, !.total_bytes = 0])

UpdateDownloadBytes ==
    \E downloaded \in 0..MaxProgress, total \in 0..MaxProgress :
        ProgStep(<<"update_download_bytes", downloaded, total>>,
                 [prog.p EXCEPT !.downloaded_bytes = downloaded,
                                !.total_bytes = total])

\* a mark_finished that leaves file_index alone
MarkFinished_KeepIndex ==
    ProgStep(<<"mark_finished">>, [prog.p EXCEPT !.done = TRUE])

MarkFinished ==
    ProgStep(<<"mark_finished">>,
             [prog.p EXCEPT !.file_index = prog.p.file_count, !.done = TRUE])

RecordFailure ==
    \E error \in FailureMessages :
        ProgStep(<<"record_failure", error>>,
                 [prog.p EXCEPT !.error = error, !.done = TRUE])

ProgNext ==
    \/ StartTracking
    \/ SetFileIndex
    \/ UpdateDownloadBytes
    \/ MarkFinished
    \/ RecordFailure

ProgSpec == ProgInit /\ [][ProgNext]_vars

----------------------------------------------------------------------------
(* The decoding session (SesSpec)                                          *)
(*                                                                         *)
(* The DecodingSession of a decode thread, called as the thread calls it:  *)
(* advance_segment with the samples of a tick, then at most one commit_to  *)
(* with the end frame and the last token of a word of a draft. The         *)
(* encoder returns a frame for every 1280 samples of the buffer, or one    *)
(* more; the decoder returns any timestamps within the frames it is given, *)
(* in order.                                                               *)

MIN_BUFFER_SIZE == 3200

RIGHT_CONTEXT_DELAY == 6

SAMPLES_PER_FRAME == 1280

CONTEXT_FRAMES == 20

\* usize::saturating_sub
saturating_sub(a, b) == IF a >= b THEN a - b ELSE 0

\* samples a tick hands to advance_segment: 100 ms, 1 s
ChunkSizes == { 1600, 16000 }

\* what decode_sequence may return for frames_count frames: at most
\* MaxDecoded timestamps in order, each the first, the middle or the last
\* frame
DecodedTimestamps(frames_count) ==
    LET marks == { 0, frames_count \div 2, frames_count - 1 }
    IN { ts \in UNION { [1..n -> marks] : n \in 0..MaxDecoded } :
           \A i \in 1..Len(ts) - 1 : ts[i] <= ts[i + 1] }

\* an advance_segment that counts the frames of its tokens from the start of
\* the buffer
advance_segment_FromBufferStart(s, new_samples, failed, total_valid_frames, timestamps) ==
    LET start_frame_idx == saturating_sub(s.encoder_cursor, s.buffer_start_frame)
        end_frame_idx == saturating_sub(total_valid_frames, RIGHT_CONTEXT_DELAY)
    IN [s EXCEPT !.last_token = IF @ = -1 THEN blank_idx ELSE @,
                 !.audio_buffer = @ + new_samples,
                 !.call = <<"advance_segment", new_samples>>,
                 !.total_valid_frames = total_valid_frames,
                 !.slice = <<start_frame_idx, end_frame_idx>>,
                 !.timestamps = timestamps,
                 !.tokens = [i \in 1..Len(timestamps) |->
                               [token_id |-> i,
                                start_frame |-> s.buffer_start_frame + timestamps[i],
                                end_frame |-> s.buffer_start_frame + timestamps[i] + 2]],
                 !.removed = 0]

\* advance_segment(model, new_samples) on session s: failed is whether the
\* model returns an error, total_valid_frames and timestamps are what the
\* encoder and the decoder return when they run
advance_segment(s, new_samples, failed, total_valid_frames, timestamps) ==
    LET t == [s EXCEPT !.last_token = IF @ = -1 THEN blank_idx ELSE @,
                       !.audio_buffer = @ + new_samples,
                       !.call = <<"advance_segment", new_samples>>,
                       !.total_valid_frames = 0,
                       !.slice = <<>>,
                       !.timestamps = <<>>,
                       !.tokens = <<>>,
                       !.removed = 0]
        skip_frames == saturating_sub(s.encoder_cursor, s.buffer_start_frame)
        delayed_frame_count == saturating_sub(total_valid_frames, RIGHT_CONTEXT_DELAY)
        start_frame_idx == skip_frames
        end_frame_idx == delayed_frame_count
    IN IF t.audio_buffer < MIN_BUFFER_SIZE \/ failed
       THEN t
       ELSE IF end_frame_idx <= start_frame_idx
            THEN [t EXCEPT !.total_valid_frames = total_valid_frames]
            ELSE [t EXCEPT !.total_valid_frames = total_valid_frames,
                           !.slice = <<start_frame_idx, end_frame_idx>>,
                           !.timestamps = timestamps,
                           !.tokens = [i \in 1..Len(timestamps) |->
                                         [token_id |-> i,
                                          start_frame |-> s.encoder_cursor + timestamps[i],
                                          end_frame |-> s.encoder_cursor + timestamps[i] + 2]]]

\* a commit_to that drains the samples but leaves buffer_start_frame alone
commit_to_KeepStart(s, frame_limit, token) ==
    LET t == [s EXCEPT !.call = <<"commit_to", frame_limit, token>>,
                       !.removed = 0]
        target_start_frame == saturating_sub(frame_limit, CONTEXT_FRAMES)
        samples_to_remove == (target_start_frame - s.buffer_start_frame) * SAMPLES_PER_FRAME
    IN IF frame_limit > s.encoder_cursor
       THEN IF target_start_frame > s.buffer_start_frame
               /\ samples_to_remove < s.audio_buffer
            THEN [t EXCEPT !.encoder_cursor = frame_limit, !.last_token = token,
                           !.audio_buffer = @ - samples_to_remove,
                           !.removed = samples_to_remove]
            ELSE [t EXCEPT !.encoder_cursor = frame_limit, !.last_token = token]
       ELSE t

\* a commit_to that moves the cursor to any frame limit
commit_to_Unguarded(s, frame_limit, token) ==
    [s EXCEPT !.call = <<"commit_to", frame_limit, token>>,
              !.removed = 0,
              !.encoder_cursor = frame_limit,
              !.last_token = token]

\* commit_to(frame_limit, last_token) on session s, token being last_token
commit_to(s, frame_limit, token) ==
    LET t == [s EXCEPT !.call = <<"commit_to", frame_limit, token>>,
                       !.removed = 0]
        target_start_frame == saturating_sub(frame_limit, CONTEXT_FRAMES)
        frames_to_drop == target_start_frame - s.buffer_start_frame
        samples_to_remove == frames_to_drop * SAMPLES_PER_FRAME
    IN IF frame_limit > s.encoder_cursor
       THEN LET u == [t EXCEPT !.encoder_cursor = frame_limit,
                               !.last_token = token]
            IN IF target_start_frame > s.buffer_start_frame
               THEN IF samples_to_remove < s.audio_buffer
                    THEN [u EXCEPT !.audio_buffer = @ - samples_to_remove,
                                   !.buffer_start_frame = @ + frames_to_drop,
                                   !.removed = samples_to_remove]
                    ELSE [u EXCEPT !.audio_buffer = 0,
                                   !.buffer_start_frame = frame_limit,
                                   !.removed = s.audio_buffer]
               ELSE u
       ELSE t

SesInit ==
    /\ ses = SesNew
    /\ fan = FanIdle(FALSE)
    /\ dl = DlIdle(1, FALSE, 0)
    /\ prog = ProgIdle
    /\ fnv = FnIdle
    /\ AppIdle
    /\ rec = RecIdle
    /\ eng = EngIdle
    /\ dec = DecIdle(PlainConfig)
    /\ config = DefaultConfig
    /\ MgrFieldsInit
    /\ PipeFieldsInit

SesStep(s) ==
    /\ ses' = s
    /\ UNCHANGED <<rec, eng, dec, fan, dl, prog, fnv>>
    /\ UNCHANGED app_vars
    /\ UNCHANGED mgr_vars
    /\ UNCHANGED pipe_vars

\* a tick of the decode thread with samples: session.advance_segment
SesAdvance ==
    \E new_samples \in ChunkSizes :
        LET len == ses.audio_buffer + new_samples
            skip == saturating_sub(ses.encoder_cursor, ses.buffer_start_frame)
        IN /\ ses.buffer_start_frame * SAMPLES_PER_FRAME + len
                <= MaxSessionFrames * SAMPLES_PER_FRAME
           /\ \/ SesStep(advance_segment(ses, new_samples, TRUE, 0, <<>>))
              \/ \E total \in { len \div SAMPLES_PER_FRAME,
                                 len \div SAMPLES_PER_FRAME + 1 } :
                    \E ts \in DecodedTimestamps(
                                 saturating_sub(saturating_sub(total, RIGHT_CONTEXT_DELAY),
                                                skip)) :
                        SesStep(advance_segment(ses, new_samples, FALSE, total, ts))

\* the same tick, when it has decoded tokens: update_draft has returned the
\* end frame and the last token of a word of a draft, session.commit_to.
\* The word is made of tokens of this tick or of an earlier one, so its end
\* frame is at most 2 beyond the last frame a slice can have had
SesCommit ==
    /\ ses.call[1] = "advance_segment"
    /\ ses.tokens # <<>>
    /\ \E frame_limit \in 2..(ses.buffer_start_frame
                                 + ses.audio_buffer \div SAMPLES_PER_FRAME + 1
                                 - RIGHT_CONTEXT_DELAY + 1) :
          SesStep(commit_to(ses, frame_limit, ses.tokens[1].token_id))

SesNext == SesAdvance \/ SesCommit

SesSpec == SesInit /\ [][SesNext]_vars

\* frame limits: the first frame, the cursor, the last limit that drops no
\* audio, one that drops five frames of it, and one beyond all audio of a
\* session
FrameLimits(s) ==
    { 0, s.encoder_cursor,
      s.buffer_start_frame + CONTEXT_FRAMES,
      s.buffer_start_frame + CONTEXT_FRAMES + 5,
      MaxSessionFrames + CONTEXT_FRAMES }

\* commit_to is public: a caller other than the decode thread may hand it
\* any frame limit
SesCommitAny ==
    \E frame_limit \in FrameLimits(ses) :
        /\ frame_limit <= MaxSessionFrames + CONTEXT_FRAMES
        /\ SesStep(commit_to(ses, frame_limit, 1))

SesApiNext == SesAdvance \/ SesCommitAny

\* a decoding session under any sequence of advance_segment and commit_to
SesApiSpec == SesInit /\ [][SesApiNext]_vars

----------------------------------------------------------------------------
(* The two threads of one StreamingPipeline (ThrSpec, ThrFairSpec)         *)
(* The pipeline is started once; the recorder sends frames and drops the   *)
(* Sender when the capture ends; stop() may be called; the offline         *)
(* transcription of the session takes the model lock once.                 *)

ThrInit ==
    /\ thr = ThrIdle
    /\ lk = LkIdle
    /\ typ = TypIdle
    /\ key = KeyIdle
    /\ fan = FanIdle(FALSE)
    /\ dl = DlIdle(1, FALSE, 0)
    /\ prog = ProgIdle
    /\ fnv = FnIdle
    /\ ses = SesNew
    /\ rec = RecIdle
    /\ eng = EngIdle
    /\ dec = DecIdle(PlainConfig)
    /\ config = DefaultConfig
    /\ MgrFieldsInit
    /\ PipeFieldsInit

ThrStep(t) ==
    /\ thr' = t
    /\ UNCHANGED <<rec, eng, dec, fan, dl, prog, fnv, ses, lk, typ, key>>
    /\ UNCHANGED mgr_vars
    /\ UNCHANGED pipe_vars

\* StreamingPipeline::start: running.store(true), the two thread::spawn
ThrStart ==
    /\ thr.ingest = "unspawned"
    /\ ThrStep([thr EXCEPT !.running = TRUE, !.ingest = "loop", !.decode = "loop"])

\* StreamingPipeline::stop: running.store(false)
ThrStop ==
    /\ thr.ingest # "unspawned"
    /\ thr.running
    /\ ThrStep([thr EXCEPT !.running = FALSE])

\* the capture worker sends a frame into the fanout channel
ThrSend ==
    /\ thr.tx_alive
    /\ thr.sent < MaxEmitted
    /\ ThrStep([thr EXCEPT !.channel = @ + 1, !.sent = @ + 1])

\* the capture worker ends and drops the Sender
ThrDropTx ==
    /\ thr.tx_alive
    /\ ThrStep([thr EXCEPT !.tx_alive = FALSE])

\* ingest thread: the loop condition reads the flag
IngestLoop ==
    /\ thr.ingest = "loop"
    /\ ThrStep([thr EXCEPT !.ingest = IF thr.running THEN "recv" ELSE "done"])

\* a disconnected channel that is not reported to the decode thread
IngestRecv_NoSignal ==
    /\ thr.ingest = "recv"
    /\ IF thr.channel > 0
       THEN ThrStep([thr EXCEPT !.channel = @ - 1,
                                !.ring = IF @ < MaxChunks THEN @ + 1 ELSE @,
                                !.ingest = "loop"])
       ELSE IF thr.tx_alive
            THEN ThrStep([thr EXCEPT !.ingest = "loop"])
            ELSE ThrStep([thr EXCEPT !.ingest = "done"])

\* ingest thread: rx.recv_timeout(50 ms). A frame is pushed into the ring
\* buffer (its samples are dropped when the buffer is full); a timeout goes
\* back to the loop condition; a disconnected channel clears the flag and
\* leaves the loop
IngestRecv ==
    /\ thr.ingest = "recv"
    /\ IF thr.channel > 0
       THEN ThrStep([thr EXCEPT !.channel = @ - 1,
                                !.ring = IF @ < MaxChunks THEN @ + 1 ELSE @,
                                !.ingest = "loop"])
       ELSE IF thr.tx_alive
            THEN ThrStep([thr EXCEPT !.ingest = "loop"])
            ELSE ThrStep([thr EXCEPT !.running = FALSE, !.ingest = "done"])

\* decode thread: the loop condition reads the flag; when it is set the tick
\* empties the ring buffer and, with samples, goes on to lock the model
DecodeLoop ==
    /\ thr.decode = "loop"
    /\ IF thr.running
       THEN ThrStep([thr EXCEPT !.ring = 0,
                                !.decode = IF thr.ring > 0 THEN "lock" ELSE "sleep"])
       ELSE ThrStep([thr EXCEPT !.decode = "flush"])

\* decode thread: model_arc.write() is granted
DecodeLock ==
    /\ thr.decode = "lock"
    /\ thr.batch # "running"
    /\ ThrStep([thr EXCEPT !.model_held = TRUE, !.decode = "decode"])

\* decode thread: advance_segment returns, the guard is dropped, the patches
\* of the tick are handed to on_update
DecodeTickEnd ==
    /\ thr.decode = "decode"
    /\ ThrStep([thr EXCEPT !.model_held = FALSE, !.decode = "sleep"])

\* decode thread: the rest of the tick is slept
DecodeSleep ==
    /\ thr.decode = "sleep"
    /\ ThrStep([thr EXCEPT !.decode = "loop"])

\* decode thread: the final flush, and the closure returns
DecodeFlush ==
    /\ thr.decode = "flush"
    /\ ThrStep([thr EXCEPT !.decode = "done"])

\* the offline transcription of the session takes the model lock
BatchBegin ==
    /\ thr.batch = "idle"
    /\ ~thr.tx_alive
    /\ ~thr.model_held
    /\ ThrStep([thr EXCEPT !.batch = "running"])

\* the offline transcription returns and releases the model lock
BatchEnd ==
    /\ thr.batch = "running"
    /\ ThrStep([thr EXCEPT !.batch = "done"])

\* the steps of the ingest thread
IngestNext == IngestLoop \/ IngestRecv

\* the steps of the decode thread
DecodeNext == DecodeLoop \/ DecodeLock \/ DecodeTickEnd \/ DecodeSleep \/ DecodeFlush

ThrNext ==
    \/ ThrStart \/ ThrStop \/ ThrSend \/ ThrDropTx
    \/ IngestNext \/ DecodeNext
    \/ BatchBegin \/ BatchEnd

ThrSpec == ThrInit /\ [][ThrNext]_vars

\* both threads keep running while they can take a step, and a
\* transcription that holds the model lock returns
ThrFairSpec ==
    ThrSpec /\ WF_vars(IngestNext) /\ WF_vars(DecodeNext) /\ WF_vars(BatchEnd)

----------------------------------------------------------------------------
(* The typing of one session of the global-shortcut path (TypSpec)         *)
(* The decode thread hands on_update the stable patches of the words one   *)
(* by one, the last of them possibly in its final flush, and volatile      *)
(* patches with the text so far; the thread of stop_recording_async calls  *)
(* append_offline_suffix with the offline transcript.                      *)

\* the offline transcript is the utterance, as it is or followed by a space
TypInit ==
    /\ typ \in { TypSession(n, Utterance(n) \o tail) :
                    n \in 1..MaxWords, tail \in { <<>>, <<" ">> } }
    /\ thr = ThrIdle
    /\ lk = LkIdle
    /\ key = KeyIdle
    /\ fan = FanIdle(FALSE)
    /\ dl = DlIdle(1, FALSE, 0)
    /\ prog = ProgIdle
    /\ fnv = FnIdle
    /\ ses = SesNew
    /\ rec = RecIdle
    /\ eng = EngIdle
    /\ dec = DecIdle(PlainConfig)
    /\ config = DefaultConfig
    /\ MgrFieldsInit
    /\ PipeFieldsInit

TypStep(t) ==
    /\ typ' = t
    /\ UNCHANGED <<rec, eng, dec, fan, dl, prog, fnv, ses, thr, lk, key>>
    /\ UNCHANGED mgr_vars
    /\ UNCHANGED pipe_vars

\* the text of the stable patch of word i: what take_newly_committed
\* returns for it, or the final patch of a draft that holds it
StableText(i) == IF i = 1 THEN <<Letters[1]>> ELSE <<" ", Letters[i]>>

\* decode thread: on_update(stable_patch), or on_update(final_patch)
EmitStable ==
    /\ typ.emitted < typ.words
    /\ LET i == typ.emitted + 1
       IN TypStep(on_update([typ EXCEPT !.emitted = i,
                                        !.shown = IF @ < i THEN i ELSE @],
                            StablePatch(StableText(i))))

\* decode thread: on_update(ui_patch) with the committed words and a draft
EmitVolatile ==
    \E n \in 1..typ.words :
        /\ n >= typ.emitted
        /\ n >= typ.shown
        /\ TypStep(on_update([typ EXCEPT !.shown = n], UiPatch(Utterance(n))))

\* append_offline_suffix: current_transcription()
OfflineRead ==
    /\ typ.pc = "idle"
    /\ TypStep([typ EXCEPT !.current = typ.buffer, !.pc = "read"])

\* append_offline_suffix, after current_transcription()
OfflineAppend ==
    /\ typ.pc = "read"
    /\ LET t == [typ EXCEPT !.pc = "done", !.current = <<>>]
           suffix == suffix_after_prefix(typ.current, typ.offline)
       IN IF Trim(typ.current) = <<>>
          THEN TypStep(append_and_type(t, typ.offline))
          ELSE IF suffix.some
               THEN TypStep(append_and_type(t, suffix.text))
               ELSE TypStep(t)

TypNext == EmitStable \/ EmitVolatile \/ OfflineRead \/ OfflineAppend

TypSpec == TypInit /\ [][TypNext]_vars

----------------------------------------------------------------------------
(* The global shortcut, its handler and the recorder flag (KeySpec)        *)

KeyInit ==
    /\ key = KeyIdle
    /\ thr = ThrIdle
    /\ lk = LkIdle
    /\ typ = TypIdle
    /\ fan = FanIdle(FALSE)
    /\ dl = DlIdle(1, FALSE, 0)
    /\ prog = ProgIdle
    /\ fnv = FnIdle
    /\ ses = SesNew
    /\ rec = RecIdle
    /\ eng = EngIdle
    /\ dec = DecIdle(PlainConfig)
    /\ config = DefaultConfig
    /\ MgrFieldsInit
    /\ PipeFieldsInit

KeyStep(k) ==
    /\ key' = k
    /\ UNCHANGED <<rec, eng, dec, fan, dl, prog, fnv, ses, thr, lk, typ>>
    /\ UNCHANGED mgr_vars
    /\ UNCHANGED pipe_vars

\* the handler on ShortcutState::Pressed: when the recorder is not recording,
\* start_recording_async spawns the task that will call Recorder::start
Pressed ==
    /\ ~key.down
    /\ key.presses < MaxPresses
    /\ LET k == [key EXCEPT !.down = TRUE, !.presses = @ + 1]
       IN IF ~key.is_recording
          THEN KeyStep([k EXCEPT !.start_tasks = @ + 1])
          ELSE KeyStep(k)

\* the handler on ShortcutState::Released: when the recorder is recording,
\* stop_recording_async spawns the thread that will call Recorder::stop
Released ==
    /\ key.down
    /\ LET k == [key EXCEPT !.down = FALSE]
       IN IF key.is_recording
          THEN KeyStep([k EXCEPT !.stop_tasks = @ + 1])
          ELSE KeyStep(k)

\* the task of start_recording_async: Recorder::start swaps the flag to
\* true; AlreadyRecording when it was set, else the worker is initialised
StartTask ==
    /\ key.start_tasks > 0
    /\ LET k == [key EXCEPT !.start_tasks = @ - 1]
       IN IF key.is_recording
          THEN KeyStep([k EXCEPT !.result = "AlreadyRecording"])
          ELSE \/ KeyStep([k EXCEPT !.is_recording = TRUE, !.result = "Ok"])
               \/ KeyStep([k EXCEPT !.result = "InitFailed"])

\* the thread of stop_recording_async: Recorder::stop sets the flag from
\* true to false, NotRecording when it was not set
StopTask ==
    /\ key.stop_tasks > 0
    /\ LET k == [key EXCEPT !.stop_tasks = @ - 1]
       IN IF key.is_recording
          THEN KeyStep([k EXCEPT !.is_recording = FALSE, !.result = "Stopped"])
          ELSE KeyStep([k EXCEPT !.result = "NotRecording"])

KeyNext == Pressed \/ Released \/ StartTask \/ StopTask

KeySpec == KeyInit /\ [][KeyNext]_vars

----------------------------------------------------------------------------
(* The locks of the speech engine (LkSpec, LkFairSpec)                     *)
(* Every model.write() and every lock() of the status and last_use mutexes *)
(* is a request followed by a grant; a thread holds what it was granted    *)
(* until the guard is dropped.                                             *)

LkInit ==
    /\ lk = LkIdle
    /\ thr = ThrIdle
    /\ typ = TypIdle
    /\ key = KeyIdle
    /\ fan = FanIdle(FALSE)
    /\ dl = DlIdle(1, FALSE, 0)
    /\ prog = ProgIdle
    /\ fnv = FnIdle
    /\ ses = SesNew
    /\ rec = RecIdle
    /\ eng = EngIdle
    /\ dec = DecIdle(PlainConfig)
    /\ config = DefaultConfig
    /\ MgrFieldsInit
    /\ PipeFieldsInit

LkStep(r) ==
    /\ lk' = r
    /\ UNCHANGED <<rec, eng, dec, fan, dl, prog, fnv, ses, thr, typ, key>>
    /\ UNCHANGED mgr_vars
    /\ UNCHANGED pipe_vars

\* thread t calls lock() or write() on l and goes to position p
Req(r, t, l, p) == [r EXCEPT !.want[t] = l, !.pc[t] = p]

\* thread t drops every guard it holds and goes to position p
Rel(r, t, p) ==
    [r EXCEPT !.holder = [l \in Locks |-> IF @[l] = t THEN "none" ELSE @[l]],
              !.pc[t] = p]

\* thread t drops its guard of l
RelOne(r, t, l) == [r EXCEPT !.holder[l] = "none"]

\* thread t is at position p and holds what it asked for
At(t, p) == lk.pc[t] = p /\ lk.want[t] = "none"

\* the lock is free and is granted to thread t
LkGrant(t) ==
    /\ lk.want[t] # "none"
    /\ lk.holder[lk.want[t]] = "none"
    /\ LkStep([lk EXCEPT !.holder[lk.want[t]] = t, !.want[t] = "none"])

\* a transcription that locks status while it holds the model
TranscribeNested_Status(r) == Req(r, "caller", "status", "t_nested")

\* transcribe_samples_inner: update_last_use() under the model guard
TranscribeNested(r) == Req(r, "caller", "last_use", "t_nested")

\* transcribe_samples_inner, ensure_model_loaded: update_last_use
LkCallerEnter ==
    /\ At("caller", "idle")
    /\ LkStep(Req(lk, "caller", "last_use", "e_touch"))

\* ensure_model_loaded: the last_use guard is dropped, status.lock()
LkCallerTouched ==
    /\ At("caller", "e_touch")
    /\ LkStep(Req(RelOne(lk, "caller", "last_use"), "caller", "status", "e_match"))

\* ensure_model_loaded, the first match under the status guard: Loaded
\* returns Ok and the caller goes on to model.write(); Loading waits on the
\* condition variable; otherwise status becomes Loading, the guard is
\* dropped, the loader is spawned and status.lock() is called again
LkCallerMatch ==
    /\ At("caller", "e_match")
    /\ CASE lk.status = "Loaded" ->
              LkStep(Req(RelOne(lk, "caller", "status"), "caller", "model", "t_model"))
         [] lk.status = "Loading" ->
              LkStep(Rel(lk, "caller", "e_wait"))
         [] OTHER ->
              LkStep(Req([RelOne(lk, "caller", "status") EXCEPT
                             !.status = "Loading", !.pc["loader"] = "init"],
                         "caller", "status", "e_loop"))

\* wait_timeout returns, notified or timed out: the mutex is locked again
LkCallerWake ==
    /\ At("caller", "e_wait")
    /\ LkStep(Req(lk, "caller", "status", "e_after"))

\* after the wait of the first match: Ok on Loaded unless timed out, else Err
LkCallerAfterWait ==
    /\ At("caller", "e_after")
    /\ \/ /\ lk.status = "Loaded"
          /\ LkStep(Req(RelOne(lk, "caller", "status"), "caller", "model", "t_model"))
       \/ LkStep(Rel(lk, "caller", "idle"))

\* the loop after the spawn, under the status guard: Loaded returns Ok;
\* Loading waits on the condition variable, which locks the mutex again
\* when it returns; else Err
LkCallerLoop ==
    /\ At("caller", "e_loop")
    /\ CASE lk.status = "Loaded" ->
              LkStep(Req(RelOne(lk, "caller", "status"), "caller", "model", "t_model"))
         [] lk.status = "Loading" ->
              LkStep(Req(RelOne(lk, "caller", "status"), "caller", "status", "e_rewait"))
         [] OTHER ->
              LkStep(Rel(lk, "caller", "idle"))

\* wait_timeout of the loop has returned under the status guard: timed out
\* returns Err, otherwise the loop matches again
LkCallerRewake ==
    /\ At("caller", "e_rewait")
    /\ \/ LkStep(Rel(lk, "caller", "idle"))
       \/ LkStep([lk EXCEPT !.pc["caller"] = "e_loop"])

\* transcribe_samples_inner under the model guard: None returns the error,
\* otherwise update_last_use
LkCallerModel ==
    /\ At("caller", "t_model")
    /\ IF lk.model
       THEN LkStep(TranscribeNested(lk))
       ELSE LkStep(Rel(lk, "caller", "idle"))

\* update_last_use returns: its guard is dropped, the transcription runs
LkCallerRun ==
    /\ At("caller", "t_nested")
    /\ LkStep([lk EXCEPT !.holder = [l \in Locks |->
                                        IF l # "model" /\ @[l] = "caller"
                                        THEN "none" ELSE @[l]],
                         !.pc["caller"] = "t_run"])

\* transcribe_samples_ref returns: the model guard is dropped
LkCallerDone ==
    /\ At("caller", "t_run")
    /\ LkStep(Rel(lk, "caller", "idle"))

\* loader: init_model returned Ok, model_safe.write(); or Err, status.lock()
LkLoaderInit ==
    /\ At("loader", "init")
    /\ \/ LkStep(Req(lk, "loader", "model", "l_model"))
       \/ LkStep(Req(lk, "loader", "status", "l_fail"))

\* loader: the model is stored, the guard dropped, status_safe.lock()
LkLoaderStored ==
    /\ At("loader", "l_model")
    /\ LkStep(Req([RelOne(lk, "loader", "model") EXCEPT !.model = TRUE],
                  "loader", "status", "l_publish"))

\* loader: *s = Loaded, notify_all, the thread ends
LkLoaderPublished ==
    /\ At("loader", "l_publish")
    /\ LkStep(Rel([lk EXCEPT !.status = "Loaded"], "loader", "idle"))

\* loader: *s = Failed(msg), notify_all, the thread ends
LkLoaderFailed ==
    /\ At("loader", "l_fail")
    /\ LkStep(Rel([lk EXCEPT !.status = "Failed"], "loader", "idle"))

\* idle watcher after its sleep: last_use.lock()
LkWatcherWake ==
    /\ At("watcher", "idle")
    /\ LkStep(Req(lk, "watcher", "last_use", "w_read"))

\* idle watcher: elapsed is read and the guard dropped; status.lock() when
\* it is more than 300 s, else the next sleep
LkWatcherRead ==
    /\ At("watcher", "w_read")
    /\ \/ LkStep(Req(RelOne(lk, "watcher", "last_use"), "watcher", "status", "w_status"))
       \/ LkStep(Rel(lk, "watcher", "idle"))

\* idle watcher under the status guard: model.write() when Loaded
LkWatcherStatus ==
    /\ At("watcher", "w_status")
    /\ IF lk.status = "Loaded"
       THEN LkStep(Req(lk, "watcher", "model", "w_model"))
       ELSE LkStep(Rel(lk, "watcher", "idle"))

\* idle watcher under both guards: *m = None, *status_guard = Unloaded
LkWatcherUnload ==
    /\ At("watcher", "w_model")
    /\ LkStep(Rel([lk EXCEPT !.model = FALSE, !.status = "Unloaded"],
                  "watcher", "idle"))

\* reset_model_state: model.write()
LkResetEnter ==
    /\ At("resetter", "idle")
    /\ LkStep(Req(lk, "resetter", "model", "r_model"))

\* reset_model_state returns
LkResetDone ==
    /\ At("resetter", "r_model")
    /\ LkStep(Rel(lk, "resetter", "idle"))

\* a tick of the streaming decode thread: model_arc.write()
LkDecodeEnter ==
    /\ At("decoder", "idle")
    /\ LkStep(Req(lk, "decoder", "model", "d_model"))

\* advance_segment returns and the guard is dropped
LkDecodeDone ==
    /\ At("decoder", "d_model")
    /\ LkStep(Rel(lk, "decoder", "idle"))

\* the calls and wake-ups that begin a round of a thread
LkEnter == LkCallerEnter \/ LkWatcherWake \/ LkResetEnter \/ LkDecodeEnter

\* the steps of a caller that has begun a transcription, grants apart
LkCallerProgress ==
    \/ LkCallerTouched \/ LkCallerMatch \/ LkCallerWake \/ LkCallerAfterWait
    \/ LkCallerLoop \/ LkCallerRewake \/ LkCallerModel \/ LkCallerRun
    \/ LkCallerDone

\* the steps of the spawned loader, grants apart
LkLoaderProgress ==
    LkLoaderInit \/ LkLoaderStored \/ LkLoaderPublished \/ LkLoaderFailed

\* the steps of the idle watcher after its wake-up, grants apart
LkWatcherProgress == LkWatcherRead \/ LkWatcherStatus \/ LkWatcherUnload

LkProgress ==
    \/ LkCallerProgress \/ LkLoaderProgress \/ LkWatcherProgress
    \/ LkResetDone \/ LkDecodeDone

LkNext == LkEnter \/ LkProgress \/ \E t \in LkThreads : LkGrant(t)

LkSpec == LkInit /\ [][LkNext]_vars

\* a thread that can take a step takes one, and a lock that is free again
\* and again is granted to each thread that waits for it
LkFairSpec ==
    /\ LkSpec
    /\ WF_vars(LkCallerProgress)
    /\ WF_vars(LkLoaderProgress)
    /\ WF_vars(LkWatcherProgress)
    /\ WF_vars(LkResetDone)
    /\ WF_vars(LkDecodeDone)
    /\ \A t \in LkThreads : SF_vars(LkGrant(t))

----------------------------------------------------------------------------
(* Claims about the decode thread (Spec) *)

RECURSIVE ConcatText(_)
ConcatText(patches) ==
    IF patches = <<>> THEN <<>>
    ELSE patches[1].text \o ConcatText(Tail(patches))

\* C1: at every instant the concatenation of the texts of all stable patches
\* emitted so far, the final flush patch included, is a prefix of the full
\* transcript (committed words then draft words, joined by single spaces).
C1_StableConcatIsPrefixOfTranscript ==
    IsPrefix(ConcatText(stable_log), get_full_text(committed, current_draft))

\* C2: every stable patch has start = end = the committed character length
\* before the patch, so the start offsets of successive patches increase.
C2_StablePatchStartsAtPriorLen ==
    /\ \A i \in 1..Len(stable_log) :
          /\ stable_log[i].start = prior_lens[i]
          /\ stable_log[i].end = prior_lens[i]
    /\ \A i \in 1..Len(stable_log), j \in 1..Len(stable_log) :
          i < j => stable_log[i].start < stable_log[j].start

----------------------------------------------------------------------------
(* Claims about the hypothesis manager (MgrSpec) *)

\* the words the latest call appended to committed
Appended == SubSeq(committed, last.pre_len + 1, Len(committed))

\* C3: after every update_draft call, committing or not, the t1_ms of every
\* committed word is strictly less than the t0_ms of every draft word.
C3_CommittedEndsBeforeDraftStarts ==
    last.op = "update_draft" =>
        \A i \in 1..Len(committed), j \in 1..Len(current_draft) :
            committed[i].t1_ms < current_draft[j].t0_ms

\* C5: a word re-emitted at or before the commit boundary (t0_ms <= t1_ms of
\* the last committed word) is dropped on entry to update_draft: it is not
\* in the draft after the call and is never appended to committed again.
C5_ReemittedWordIsDropped ==
    (last.op = "update_draft" /\ last.pre_len > 0) =>
        LET boundary == committed[last.pre_len].t1_ms
        IN /\ \A i \in 1..Len(Appended) : Appended[i].t0_ms > boundary
           /\ \A j \in 1..Len(current_draft) : current_draft[j].t0_ms > boundary

\* C6 as stated: a commit through the stable-prefix rule occurs only when the
\* history queue is full, that is holds history_size drafts.
C6_LspOnlyWhenHistoryFull ==
    (last.op = "update_draft" /\ last.rule = "lsp") =>
        Len(history) = config.history_size

\* the step is an update_draft call on a manager that has seen exactly two
\* drafts, both <<w>>, and is handed <<w>> a third time, w being old enough
ThirdIdenticalDraft(w) ==
    /\ last'.op = "update_draft"
    /\ committed = <<>>
    /\ history = << <<w>>, <<w>> >>
    /\ last'.new_words = <<w>>
    /\ w.t1_ms <= current_audio_ms' - config.commit_lag_ms
    /\ config.safety_margin_words = 0

\* C6 as amended: a commit through the stable-prefix rule occurs only when
\* the history holds at least 3 drafts (with history_size = 4 the queue is
\* then not yet full); with fewer than 3 drafts none occurs; and the third of
\* three identical one-word drafts commits that word through that rule.
C6_LspNeedsThreeDrafts ==
    [][ /\ (last'.op = "update_draft" /\ last'.rule = "lsp") => Len(history') >= 3
        /\ \A w \in Slot1Words \cup Slot2Words :
              ThirdIdenticalDraft(w) => (last'.rule = "lsp" /\ committed' = <<w>>)
      ]_vars

\* reached: with history_size = 4 the third identical one-word draft has just
\* been committed by the stable-prefix rule, the queue holding 3 drafts
C6_Witness ==
    /\ last.op = "update_draft"
    /\ last.rule = "lsp"
    /\ config.history_size = 4
    /\ Len(history) = 3
    /\ Len(last.new_words) = 1
    /\ committed = last.new_words

\* words a and b are the same occurrence: equal text, centres in one bucket
SameOccurrence(a, b) ==
    /\ a.text = b.text
    /\ ((a.t0_ms + a.t1_ms) \div 2) \div config.time_bucket_ms
         = ((b.t0_ms + b.t1_ms) \div 2) \div config.time_bucket_ms

\* every draft of h has a word i, and all are the same occurrence
AgreeAt(h, i) ==
    \A d \in 1..Len(h) : Len(h[d]) >= i /\ SameOccurrence(h[1][i], h[d][i])

\* the step is an update_draft call after which the full history agrees on
\* word 0 and differs at word 1, with L = 0, M = 0 and word 0 in the past
AgreeOnFirstWordOnly(h) ==
    /\ last'.op = "update_draft"
    /\ h = PushHistory(config, history, last'.new_words)
    /\ Len(h) = config.history_size
    /\ AgreeAt(h, 1)
    /\ ~AgreeAt(h, 2)
    /\ Len(last'.new_words) >= 2
    /\ config.commit_lag_ms = 0
    /\ config.safety_margin_words = 0
    /\ h[1][1].t1_ms <= current_audio_ms'

HistoriesOfStep == { PushHistory(config, history, last'.new_words) }

\* C7 as stated: when the drafts of a full history agree on word 0 and differ
\* at word 1, exactly word 0 is committed and word 1 stays in the draft.
C7_OnlyAgreedWordCommittedRestStays ==
    [][ \A h \in HistoriesOfStep :
          AgreeOnFirstWordOnly(h) =>
              /\ committed' = Append(committed, h[1][1])
              /\ current_draft' = Tail(last'.new_words)
      ]_vars

\* C7 as amended: exactly word 0 is committed; of the following draft words
\* those that start after the committed word's t1_ms stay in the draft, and
\* a word that starts at or before it is removed from the draft.
C7_OnlyAgreedWordCommitted ==
    [][ \A h \in HistoriesOfStep :
          AgreeOnFirstWordOnly(h) =>
              /\ committed' = Append(committed, h[1][1])
              /\ \A j \in 2..Len(last'.new_words) :
                    LET w == last'.new_words[j]
                    IN IF w.t0_ms > h[1][1].t1_ms
                       THEN \E k \in 1..Len(current_draft') : current_draft'[k] = w
                       ELSE \A k \in 1..Len(current_draft') : current_draft'[k] # w
      ]_vars

\* reached: a full history agreed on word 0 only, that word alone has been
\* committed and the differing second word is what remains of the draft
C7_Witness ==
    /\ last.op = "update_draft"
    /\ last.rule = "lsp"
    /\ config.commit_lag_ms = 0
    /\ config.safety_margin_words = 0
    /\ Len(history) = config.history_size
    /\ last.stable_len = 1
    /\ Len(last.new_words) = 2
    /\ Appended = <<last.new_words[1]>>
    /\ current_draft = <<last.new_words[2]>>

\* C8: a word is committed through the stable-prefix rule only if its t1_ms
\* is at most current_audio_ms - commit_lag_ms at the time of the call.
C8_LspCommitRespectsLag ==
    (last.op = "update_draft" /\ last.rule = "lsp") =>
        \A i \in 1..Len(Appended) :
            Appended[i].t1_ms <= current_audio_ms - config.commit_lag_ms

\* reached: the stable prefix was longer than what was committed, with no
\* safety margin, so a stable word was held back by the lag alone
C8_Witness ==
    /\ last.op = "update_draft"
    /\ last.rule = "lsp"
    /\ config.safety_margin_words = 0
    /\ config.commit_lag_ms > 0
    /\ Len(Appended) >= 1
    /\ last.stable_len > Len(Appended)

\* C9: when the stable-prefix rule yields no candidates and the head word of
\* the draft has t0_ms older than current_audio_ms - U, update_draft commits
\* exactly that head word.
C9_ForceCommitsExactlyHead ==
    ( /\ last.op = "update_draft"
      /\ last.rule # "lsp"
      /\ last.new_words # <<>>
      /\ current_audio_ms - last.new_words[1].t0_ms
            > config.max_uncommitted_duration_ms )
    => Appended = <<last.new_words[1]>>

\* reached: a two-word draft with no stable prefix had its head, and only
\* its head, committed by the force rule
C9_Witness ==
    /\ last.op = "update_draft"
    /\ last.rule = "force"
    /\ last.stable_len = 0
    /\ Len(last.new_words) = 2
    /\ Appended = <<last.new_words[1]>>

\* C10: take_newly_committed returns the characters of the committed text
\* beyond stable_char_len together with the prior stable_char_len, and then
\* advances stable_char_len to the length of the committed text.
C10_TakeReturnsSuffixAndPriorLen ==
    last.op = "take_newly_committed" =>
        LET text == words_to_text(committed, <<>>)
        IN /\ emitted_committed_len = Max(last.prior_len, Len(text))
           /\ Len(text) > last.prior_len =>
                 /\ last.ret.some
                 /\ last.ret.text = SubSeq(text, last.prior_len + 1, Len(text))
                 /\ "start" \in DOMAIN last.ret
                 /\ last.ret.start = last.prior_len

\* C33: of the words of the stable prefix whose t1_ms is at most
\* current_audio_ms - commit_lag_ms, all but the last safety_margin_words are
\* what the stable-prefix rule of update_draft commits.
C33_MarginWithheldFromLagged ==
    [][last'.op = "update_draft" =>
          LET h1 == PushHistory(config, history, last'.new_words)
              stable_prefix == IF LspEnabled(config, h1)
                               THEN longest_stable_prefix(h1, config.time_bucket_ms)
                               ELSE <<>>
              Lagged(w) == w.t1_ms <= current_audio_ms' - config.commit_lag_ms
              lagged == SelectSeq(stable_prefix, Lagged)
              candidates == SubSeq(lagged, 1,
                                   Max(0, Len(lagged) - config.safety_margin_words))
          IN (IF last'.rule = "lsp" THEN last'.to_commit ELSE <<>>) = candidates]_vars

\* C30: after a decode tick that updated the hypothesis the patches handed
\* to on_update are, in order, the stable patch of the newly committed text
\* when there is one (the latest of stable_log), and then the volatile
\* patch: start 0, end u32::MAX, not stable, its text the committed words
\* followed by the draft as they are after the tick.
C30_StableBeforeVolatilePatch ==
    (decode_pc = "loop" /\ tick_out # <<>>) =>
        LET n == Len(tick_out)
        IN /\ n <= 2
           /\ tick_out[n] = [start |-> 0, end |-> U32_MAX,
                             text |-> words_to_text(committed, current_draft),
                             stable |-> FALSE]
           /\ n = 2 =>
                 /\ tick_out[1].stable
                 /\ stable_log # <<>>
                 /\ tick_out[1] = stable_log[Len(stable_log)]
                 /\ tick_out[1].text # <<>>

\* a tick that committed a word and kept a draft: both patches were emitted
C30_Witness ==
    /\ decode_pc = "loop"
    /\ Len(tick_out) = 2
    /\ committed # <<>>
    /\ current_draft # <<>>
    /\ last.op = "update_draft"

\* C31: the step on which the decode loop is left hands on_update one stable
\* patch whose text is a space followed by the text of the draft when the
\* draft is not empty, and nothing when it is; once the thread is done no
\* patch is handed to on_update any more.
C31_FinalFlushOnce ==
    [][/\ (decode_pc = "loop" /\ decode_pc' = "done") =>
             /\ tick_out' = IF current_draft # <<>>
                             THEN <<[start |-> 0, end |-> 0,
                                     text |-> <<" ">> \o JoinWords(current_draft),
                                     stable |-> TRUE]>>
                             ELSE <<>>
             /\ stable_log' = stable_log \o tick_out'
       /\ decode_pc = "done" => UNCHANGED <<stable_log, tick_out, decode_pc>>]_vars

\* the loop was left with a word committed and a draft pending
C31_Witness ==
    /\ decode_pc = "done"
    /\ committed # <<>>
    /\ current_draft # <<>>
    /\ Len(tick_out) = 1
    /\ tick_out[1].stable

----------------------------------------------------------------------------
(* Claims about the threads of the streaming pipeline (ThrFairSpec) *)

\* both threads have run to their end
ThreadsExited == thr.ingest = "done" /\ thr.decode = "done"

\* C32: once the running flag of a started pipeline is cleared, by stop() or
\* by the ingest thread that found the channel disconnected, and once the
\* Sender of the channel is dropped, the ingest thread and the decode thread
\* both run to their end; a thread that reads the cleared flag at its loop
\* condition takes no further tick.
C32_ThreadsExitAfterStop ==
    /\ (thr.ingest # "unspawned" /\ ~thr.running) ~> ThreadsExited
    /\ (thr.ingest # "unspawned" /\ ~thr.tx_alive) ~> ThreadsExited
    /\ [][/\ (thr.ingest = "loop" /\ ~thr.running /\ thr'.ingest # thr.ingest)
                => thr'.ingest = "done"
          /\ (thr.decode = "loop" /\ ~thr.running /\ thr'.decode # thr.decode)
                => thr'.decode = "flush"
          /\ thr.decode = "flush" => thr'.decode \in { "flush", "done" }]_vars

\* both threads have ended after a disconnect, with frames ingested and the
\* model lock taken by the offline transcription meanwhile
C32_Witness ==
    /\ ThreadsExited
    /\ ~thr.tx_alive
    /\ thr.sent = MaxEmitted
    /\ thr.channel = 0
    /\ thr.batch = "done"

----------------------------------------------------------------------------
(* Claims about the typing of the global-shortcut path (TypSpec) *)

\* the texts pushed to the typing queue, joined
RECURSIVE Joined(_)
Joined(q) == IF q = <<>> THEN <<>> ELSE Head(q) \o Joined(Tail(q))

\* C35: streamed_any, false after start(), is set only once the pipeline
\* has emitted a stable patch with text; volatile patches do not set it.
C35_StreamedAnyOnlyAfterStableText ==
    typ.streamed_any => typ.emitted > 0

\* C38: nothing is typed twice: with a streaming transcript and an offline
\* transcript of the same utterance, what has been typed is at every moment
\* the beginning of the offline transcript, whatever the order of the
\* stable patches and of append_offline_suffix.
C38_NothingTypedTwice ==
    IsPrefix(Joined(typ.queue), typ.offline)

----------------------------------------------------------------------------
(* Claims about the global shortcut (KeySpec) *)

\* C39: the Released event that follows a Pressed event stops the recording
\* that the press started: with the key up and every spawned task and
\* thread run, the recorder is Idle.
C39_ReleaseStopsRecording ==
    (~key.down /\ key.start_tasks = 0 /\ key.stop_tasks = 0) => ~key.is_recording

----------------------------------------------------------------------------
(* Claims about the locks of the speech engine (LkFairSpec) *)

----------------------------------------------------------------------------
(* Claims about the recorder (RecSpec) *)

\* C4: under any interleaving of start() and stop() calls at most one
\* capture worker is alive at any time, and whenever the recorder is Idle
\* with no start() or stop() call in progress no capture worker is running.
C4_AtMostOneWorkerNoneWhenIdle ==
    /\ Cardinality({ w \in Workers : Alive(w) }) <= 1
    /\ (~rec.is_recording /\ \A t \in Callers : rec.pc[t] = "idle")
         => \A w \in Workers : ~Alive(w)

\* positions of a caller inside start() after its swap
StartPcs == { "s_spawn", "s_wait", "s_store_tx", "s_store_handle", "s_join" }

C12_StartReturnsInitError ==
    [][ \A t \in Callers :
          ( /\ rec.pc[t] = "s_join"
            /\ rec'.pc[t] = "idle"
            /\ rec.init_err[rec.my[t]] # "none" )
          => rec'.result[t] = rec.init_err[rec.my[t]]
      ]_vars

\* C13: start() returns within its bounded wait: once recv_timeout has
\* returned, start() has nothing left to wait for, so a caller that has left
\* the wait through the failure arm is never held by a worker still alive.
C13_StartNotHeldAfterWait ==
    \A t \in Callers :
        rec.pc[t] = "s_join" => rec.wstate[rec.my[t]] \in { "exited", "exited_after_signal" }

\* C14: when stop() is called on a Recording recorder the worker drops the
\* stream, drains and flushes, and the samples enqueued before the drop are
\* in the utterance buffer that stop() returns: a stop() called while a worker's
\* handle was stored returns Ok when that worker stored samples.
C14_StopReturnsDrainedSamples ==
    [][ \A t \in Callers :
          ( /\ rec.pc[t] = "p_join"
            /\ rec'.pc[t] = "idle"
            /\ rec.called_on[t] # 0
            /\ rec.captured[rec.called_on[t]] = 1 )
          => rec'.result[t] = "Ok"
      ]_vars

\* C21: start() called while the recorder is Recording fails with
\* AlreadyRecording and leaves the active recording untouched: the step in
\* which a caller's start() comes back with AlreadyRecording changes nothing
\* of the recorder but that caller's result, so the flag stays set, the
\* buffer, overrun_count and streamed_any keep their values and no worker is
\* spawned.
C21_AlreadyRecordingLeavesSession ==
    [][ \A t \in Callers :
          ( /\ rec.pc[t] = "idle"
            /\ rec.result[t] # "AlreadyRecording"
            /\ rec'.result[t] = "AlreadyRecording" )
          => /\ rec.is_recording
             /\ rec' = [rec EXCEPT !.result[t] = "AlreadyRecording"]
      ]_vars

\* a start() has failed with AlreadyRecording during a session whose worker
\* captures, with overruns counted and text streamed
C21_Witness ==
    \E t \in Callers :
        /\ rec.pc[t] = "idle"
        /\ rec.result[t] = "AlreadyRecording"
        /\ rec.is_recording
        /\ rec.streamed_any
        /\ rec.overrun_count = 1
        /\ rec.worker_handle # 0
        /\ rec.wstate[rec.worker_handle] = "running"

----------------------------------------------------------------------------
(* Claims about the frames of a recording session (FanSpec) *)

\* C22: within one recording session the frames emitted by the audio
\* processor are appended to the utterance buffer and forwarded to the
\* fanout channel in the same order, none reordered, duplicated or skipped:
\* when stop() returns the utterance buffer of a session started with a
\* fanout channel, the frames the channel has accepted are the frames of
\* that buffer.
C22_ForwardedEqualsBuffer ==
    (fan.streaming_tx /\ fan.result = "Ok") => fan.forwarded = fan.returned

----------------------------------------------------------------------------
(* Claims about the model downloader (DlSpec) *)

\* C23: the temp .download file is renamed to the final file name only on
\* byte-count verification success: the step in which the final file comes
\* into existence ends an attempt whose downloaded byte count equals the
\* size of the asset that was expected.
C23_RenameOnlyWhenComplete ==
    [][ (~dl.dest /\ dl'.dest)
          => (dl.downloaded = dl.total_size /\ dl'.dest_len = dl.size)
      ]_vars

\* C24: download_asset makes at most 3 attempts per file, waits 2 s x
\* attempt after a failed attempt before the next one, stops at the first
\* successful attempt, and after the third failure returns the last error.
C24_ThreeAttemptsLinearBackoff ==
    /\ Len(dl.log) <= 3
    /\ \A i \in 1..Len(dl.log) : dl.log[i] = "Ok" => (i = Len(dl.log) /\ dl.pc = "done")
    /\ dl.pc # "done" => (dl.attempt = Len(dl.log) + 1 /\ Len(dl.slept) = Len(dl.log))
    /\ \A i \in 1..Len(dl.slept) : dl.slept[i] = 2 * i /\ dl.log[i] # "Ok"
    /\ dl.pc = "done" =>
          \/ dl.result = "Ok" /\ dl.log[Len(dl.log)] = "Ok"
                              /\ Len(dl.slept) = Len(dl.log) - 1
          \/ /\ Len(dl.log) = 3
             /\ Len(dl.slept) = 2
             /\ dl.result # "Ok"
             /\ dl.result = dl.log[3]

\* download_asset has returned the error of its third attempt, which differs
\* from the error of the second
C24_Witness ==
    /\ dl.pc = "done"
    /\ Len(dl.log) = 3
    /\ dl.slept = <<2, 4>>
    /\ dl.log[2] # dl.log[3]
    /\ dl.result = dl.log[3]

----------------------------------------------------------------------------
(* Claims about functions without state (FnSpec) *)

\* whether the text of token i of the call begins with the space marker
BeginsWithSpace(i) ==
    fnv.tokens[i].text # <<>> /\ fnv.tokens[i].text[1] = " "

\* the tokens that begin a run: the first one and those with the marker
RunStarts == { i \in 1..Len(fnv.tokens) : i = 1 \/ BeginsWithSpace(i) }

\* the last token of the run that token i begins
RunEnd(i) ==
    IF \E j \in RunStarts : j > i
    THEN (CHOOSE j \in RunStarts : j > i /\ \A k \in RunStarts : k > i => k >= j) - 1
    ELSE Len(fnv.tokens)

\* whether the run that token i begins has a char that is not a space
RunHasText(i) ==
    \E j \in i..RunEnd(i) : \E c \in 1..Len(fnv.tokens[j].text) :
        fnv.tokens[j].text[c] # " "

\* C25 as stated: the number of words produced by tokens_to_words equals
\* the number of input tokens whose text begins with the space marker, plus
\* 1 iff the first token does not begin with a space marker and its run has
\* text left after trimming.
C25_WordCountIsMarkerCount ==
    (fnv.fn = "tokens_to_words" /\ fnv.returned) =>
        Len(fnv.words) =
            Cardinality({ i \in 1..Len(fnv.tokens) : BeginsWithSpace(i) })
            + (IF fnv.tokens # <<>> /\ ~BeginsWithSpace(1) /\ RunHasText(1)
               THEN 1 ELSE 0)

\* C25: the number of words produced by tokens_to_words equals the number
\* of runs (a run begins at the first token and at every token whose text
\* begins with the space marker) whose joined text is not empty after
\* trimming; no word has an empty text.
C25_WordCountIsRunsWithText ==
    (fnv.fn = "tokens_to_words" /\ fnv.returned) =>
        /\ Len(fnv.words) = Cardinality({ i \in RunStarts : RunHasText(i) })
        /\ \A w \in 1..Len(fnv.words) : fnv.words[w].text # <<>>

\* tokens_to_words has returned fewer words than tokens begin with the
\* marker, and at least one
C25_Witness ==
    /\ fnv.fn = "tokens_to_words"
    /\ fnv.returned
    /\ Len(fnv.words) >= 1
    /\ Len(fnv.words) < Cardinality({ i \in 1..Len(fnv.tokens) : BeginsWithSpace(i) })

\* C27: for the linear resampler, empty input or a zero source or target
\* rate produces empty output; otherwise the output length n is the ceiling
\* of input_len x out_rate / in_rate, and identical rates produce a copy of
\* the input, sample by sample.
C27_ResampleLength ==
    (fnv.fn = "resample_linear" /\ fnv.returned) =>
        LET n == Len(fnv.output)
            len == Len(fnv.input)
        IN IF len = 0 \/ fnv.from_sr = 0 \/ fnv.to_sr = 0
           THEN fnv.output = <<>>
           ELSE /\ (n - 1) * fnv.from_sr < len * fnv.to_sr
                /\ len * fnv.to_sr <= n * fnv.from_sr
                /\ fnv.from_sr = fnv.to_sr =>
                      /\ n = len
                      /\ \A i \in 1..n : fnv.output[i] = fnv.input[i] * fnv.to_sr

\* resample_linear has returned for two rates above 0 that differ, the
\* length of the input times the target rate not a multiple of the source
\* rate
C27_Witness ==
    /\ fnv.fn = "resample_linear"
    /\ fnv.returned
    /\ fnv.from_sr > 0
    /\ fnv.to_sr > 0
    /\ fnv.from_sr # fnv.to_sr
    /\ (Len(fnv.input) * fnv.to_sr) % fnv.from_sr # 0
    /\ Len(fnv.output) > 1

----------------------------------------------------------------------------
(* Claims about the download-progress record (ProgSpec) *)

\* C26: the download-progress record follows a coherent lifecycle:
\* start_tracking(n) resets it to file_count n, file_index 0, zero bytes,
\* done false and no error; set_file_index sets the index and resets the
\* byte counters; mark_finished sets file_index to file_count and done
\* without introducing an error; record_failure sets done and stores the
\* error message.
C26_ProgressLifecycle ==
    [][ LET call == prog'.call
            p == prog.p
            q == prog'.p
        IN /\ call[1] = "start_tracking" =>
                q = [file_index |-> 0, file_count |-> call[2],
                     downloaded_bytes |-> 0, total_bytes |-> 0,
                     done |-> FALSE, error |-> "None"]
           /\ call[1] = "set_file_index" =>
                /\ q.file_index = call[2]
                /\ q.downloaded_bytes = 0
                /\ q.total_bytes = 0
           /\ call[1] = "mark_finished" =>
                /\ q.file_index = p.file_count
                /\ q.file_count = p.file_count
                /\ q.done
                /\ q.error = p.error
           /\ call[1] = "record_failure" =>
                /\ q.done
                /\ q.error = call[2]
      ]_vars

\* mark_finished has returned on a record that tracks files, has bytes
\* counted and no error, its file_index having been below file_count
C26_Witness ==
    /\ prog.call = <<"mark_finished">>
    /\ prog.p.file_count > 0
    /\ prog.p.file_index = prog.p.file_count
    /\ prog.p.downloaded_bytes > 0
    /\ prog.p.done
    /\ prog.p.error = "None"

----------------------------------------------------------------------------
(* Claims about the decoding session (SesSpec) *)

\* C28: advance_segment decodes only encoder frames in [skip, T_total - 6)
\* with skip = encoder_cursor - buffer_start_frame, returns empty when that
\* range is empty, and reports each token's start frame as encoder_cursor
\* plus the token's offset within the decoded slice, so every reported start
\* frame is a global index in [encoder_cursor, buffer_start_frame + T_total
\* - 6).
C28_DecodedRangeAndStartFrames ==
    LET skip == ses.encoder_cursor - ses.buffer_start_frame
        T_total == ses.total_valid_frames
    IN /\ skip >= 0
       /\ ses.call[1] = "advance_segment" =>
            /\ ses.slice # <<>> => ses.slice = <<skip, T_total - 6>>
            /\ T_total - 6 <= skip => (ses.slice = <<>> /\ ses.tokens = <<>>)
            /\ Len(ses.tokens) = Len(ses.timestamps)
            /\ \A i \in 1..Len(ses.tokens) :
                  /\ ses.slice # <<>>
                  /\ ses.timestamps[i] \in 0..(ses.slice[2] - ses.slice[1] - 1)
                  /\ ses.tokens[i].start_frame = ses.encoder_cursor + ses.timestamps[i]
                  /\ ses.tokens[i].start_frame >= ses.encoder_cursor
                  /\ ses.tokens[i].start_frame < ses.buffer_start_frame + T_total - 6

\* advance_segment has returned a token on the last frame of its slice, for
\* a buffer that has been trimmed and a cursor beyond the start of the buffer
C28_Witness ==
    /\ ses.call[1] = "advance_segment"
    /\ ses.buffer_start_frame > 0
    /\ ses.encoder_cursor > ses.buffer_start_frame
    /\ \E i \in 1..Len(ses.tokens) :
          ses.tokens[i].start_frame = ses.buffer_start_frame + ses.total_valid_frames - 7

\* C29: after commit_to(frame_limit, token) with frame_limit beyond the
\* current cursor, encoder_cursor equals frame_limit, last_token equals
\* token, and the retained audio buffer begins at global frame max(0,
\* encoder_cursor - 20), the trim having removed a whole number of
\* 1280-sample frames from the front of the buffer.
C29_CommitAdvancesAndTrims ==
    [][ (ses'.call[1] = "commit_to" /\ ses'.call[2] > ses.encoder_cursor) =>
          /\ ses'.encoder_cursor = ses'.call[2]
          /\ ses'.last_token = ses'.call[3]
          /\ ses'.buffer_start_frame =
                IF ses'.encoder_cursor > 20 THEN ses'.encoder_cursor - 20 ELSE 0
          /\ ses'.buffer_start_frame >= ses.buffer_start_frame
          /\ ses'.removed =
                (ses'.buffer_start_frame - ses.buffer_start_frame) * 1280
          /\ ses'.audio_buffer = ses.audio_buffer - ses'.removed
      ]_vars

\* commit_to has trimmed a buffer that had been trimmed before
C29_Witness ==
    /\ ses.call[1] = "commit_to"
    /\ ses.removed > 0
    /\ ses.removed < ses.buffer_start_frame * 1280
    /\ ses.audio_buffer > 0

\* C34: the end frame of every token that advance_segment returns is its
\* start frame or the frame after it.
C34_EndFrameWithinOne ==
    \A i \in 1..Len(ses.tokens) :
        ses.tokens[i].end_frame \in { ses.tokens[i].start_frame,
                                      ses.tokens[i].start_frame + 1 }

\* C40: under any sequence of advance_segment and commit_to calls the
\* encoder cursor never decreases, buffer_start_frame is at most the cursor,
\* and a commit_to whose frame limit is not beyond the cursor leaves the
\* cursor, the last token, the audio buffer and its start frame as they were.
C40_CursorMonotoneAndBounded ==
    [][/\ ses'.encoder_cursor >= ses.encoder_cursor
       /\ ses'.buffer_start_frame <= ses'.encoder_cursor
       /\ (ses'.call[1] = "commit_to" /\ ses'.call[2] <= ses.encoder_cursor) =>
             /\ ses'.encoder_cursor = ses.encoder_cursor
             /\ ses'.last_token = ses.last_token
             /\ ses'.audio_buffer = ses.audio_buffer
             /\ ses'.buffer_start_frame = ses.buffer_start_frame]_vars

\* a commit_to behind the cursor of a session whose buffer has been trimmed
C40_Witness ==
    /\ ses.call[1] = "commit_to"
    /\ ses.call[2] < ses.encoder_cursor
    /\ ses.buffer_start_frame > 0
    /\ ses.audio_buffer > 0

----------------------------------------------------------------------------
(* Claims about the speech engine (EngSpec) *)

\* the loaders that have not yet published the result of their load
LoadersLoading == { l \in Loaders : eng.lstate[l] \in { "init", "stored" } }

\* the loader threads that have not yet run to their end
LoadersRunning == { l \in Loaders : eng.lstate[l] \in { "init", "stored", "failed" } }

\* the callers between *status = Loading and thread::spawn
CallersSpawning == { c \in EngCallers : eng.pc[c] = "spawn" }

\* C15 (as amended): at most one load is under way at any time, counting a
\* loader from the moment its caller set Loading to the moment it publishes
\* Loaded or Failed, and status is Loading for all that time; a loader is
\* spawned only by a caller that moved the engine from Unloaded or Failed to
\* Loading.
C15_SingleLoad ==
    /\ [](/\ Cardinality(LoadersLoading) + Cardinality(CallersSpawning) <= 1
          /\ (LoadersLoading # {} \/ CallersSpawning # {}) => eng.status = "Loading")
    /\ [][ /\ eng'.spawned # eng.spawned =>
                \E c \in EngCallers :
                    /\ eng.pc[c] = "spawn"
                    /\ eng'.pc[c] = "wait_loop"
                    /\ eng'.spawned = eng.spawned + 1
                    /\ eng'.lstate[eng'.spawned] = "init"
           /\ \A c \in EngCallers :
                (eng.pc[c] # "spawn" /\ eng'.pc[c] = "spawn") =>
                    /\ eng.status \in { "Unloaded", "Failed" }
                    /\ eng'.status = "Loading"
       ]_vars

\* reached: the second loader is loading after the first one failed and has
\* ended, its spawner is in its loop and the other caller waits for the load
C15_Witness ==
    /\ eng.lstate[1] = "done"
    /\ eng.lstate[2] = "init"
    /\ eng.status = "Loading"
    /\ eng.pc["a"] = "wait_loop"
    /\ eng.pc["b"] = "wait_first"

\* C15 as stated: at most one loader thread is running at any time.
C15_OneLoaderThreadRunning ==
    Cardinality(LoadersRunning) <= 1

\* C16: a caller that found a load in progress and waited returns an error
\* only if the load failed or the wait timed out.
C16_WaiterErrorOnlyOnFailureOrTimeout ==
    [][ \A c \in EngCallers :
          ( /\ eng.pc[c] = "wait_first"
            /\ eng'.pc[c] = "idle" )
          => \/ eng'.result[c] = "TimedOut"
             \/ eng'.result[c] = "LoadFailed" /\ eng.status = "Failed"
      ]_vars

\* C17: the idle watcher unloads the model only when the engine is Loaded and
\* no transcription activity, batch or streaming, took place during the
\* IDLE_UNLOAD_SECS before the unloading.
C17_UnloadOnlyWhenIdle ==
    [][ (eng.model /\ ~eng'.model) =>
          /\ eng.status = "Loaded"
          /\ eng.now - eng.last_activity >= IDLE_UNLOAD_SECS
      ]_vars

----------------------------------------------------------------------------
(* Claims about greedy decoding (DecSpec) *)

\* the target token of the next step_scores call of transcription d
StepTarget(d) ==
    IF d.tokens = <<>> THEN d.last_token ELSE d.tokens[Len(d.tokens)]

\* the best score of a token other than the blank, less the score of the
\* blank, at frame f (counted from 0) with the target and state of d
GapAt(d, f) ==
    LET slice == JointLogits(d.enc[f + 1], StepTarget(d), d.state)
        temp == normalized_temperature(d.cfg)
        scores == { TokenScore(slice, temp, build_hotword_mask(d.cfg),
                               d.cfg.hotword_boost, i) : i \in Vocab \ { blank_idx } }
        best == CHOOSE x \in scores : \A y \in scores : x >= y
    IN best - (slice[blank_idx] \div temp)

\* how many tokens carry frame index f
CountAt(timestamps, f) ==
    Cardinality({ k \in 1..Len(timestamps) : timestamps[k] = f })

\* the per-frame limit of the decoder: max_tokens_per_step, and 1 if that is 0
FrameLimit(d) == Max(d.cfg.max_tokens_per_step, 1)

\* with the status mutex free, status Loaded means the slot holds a model
StatusLoadedImpliesModel ==
    eng.status = "Loaded" => eng.model

\* C36: whenever the status is Loaded the model slot holds a model, and a
\* transcription whose ensure_model_loaded returned Ok does not return
\* "Speech model is not loaded yet".
C36_LoadedHoldsModel ==
    /\ StatusLoadedImpliesModel
    /\ \A c \in EngCallers : eng.result[c] # "NotLoaded"

\* C18: in greedy decoding, when the best non-blank score exceeds the blank
\* score by less than min_blank_margin, the step emits blank: no token and no
\* timestamp is appended, the decoder state and the last token are unchanged
\* (and decoding moves on to the next frame).
C18_BlankMarginGate ==
    [][ ( /\ dec.pc = "decoding"
          /\ dec'.pc = "decoding"
          /\ GapAt(dec, dec.t) < dec.cfg.min_blank_margin )
        => /\ dec'.tokens = dec.tokens
           /\ dec'.timestamps = dec.timestamps
           /\ dec'.state = dec.state
           /\ dec'.last_token = dec.last_token
           /\ dec'.t = dec.t + 1
      ]_vars

\* reached: frame t - 1 ended on a blank before its limit of tokens, after a
\* token had been emitted, and with the state and target left by that step
\* its best token leads the blank by more than 0 and less than the margin
C18_Witness ==
    /\ dec.pc = "decoding"
    /\ dec.t >= 1
    /\ dec.tokens # <<>>
    /\ CountAt(dec.timestamps, dec.t - 1) < FrameLimit(dec)
    /\ GapAt(dec, dec.t - 1) > 0
    /\ GapAt(dec, dec.t - 1) < dec.cfg.min_blank_margin

\* the vectors of a transcription in progress: as many timestamps as tokens,
\* timestamps non-decreasing and below the valid length, at most limit tokens
\* on one frame
DecodeShape(d, limit) ==
    /\ d.t <= Len(d.enc)
    /\ Len(d.timestamps) = Len(d.tokens)
    /\ \A k \in 1..Len(d.timestamps) :
          /\ d.timestamps[k] < Len(d.enc)
          /\ d.timestamps[k] <= d.t
          /\ k > 1 => d.timestamps[k - 1] <= d.timestamps[k]
    /\ \A f \in 0..Len(d.enc) : CountAt(d.timestamps, f) <= limit

\* C19 (as amended): greedy decoding terminates: every step either emits a
\* token at frame t or moves t on by 1, t moves on at every blank and when the
\* frame holds max(max_tokens_per_step, 1) tokens, so the steps of one call
\* number at most valid length times that limit; at most that many tokens
\* carry one frame index, timestamps are non-decreasing and below the valid
\* length.
C19_GreedyTerminates ==
    /\ [](dec.pc = "decoding" =>
            /\ DecodeShape(dec, FrameLimit(dec))
            /\ dec.n < FrameLimit(dec)
            /\ dec.n = IF dec.t < Len(dec.enc) THEN CountAt(dec.timestamps, dec.t) ELSE 0)
    /\ [][ (dec.pc = "decoding" /\ dec'.pc = "decoding") =>
             /\ dec'.t \in { dec.t, dec.t + 1 }
             /\ dec'.tokens = dec.tokens => dec'.t = dec.t + 1
             /\ CountAt(dec'.timestamps, dec.t) = FrameLimit(dec) => dec'.t = dec.t + 1
             /\ dec'.t = dec.t =>
                   /\ Len(dec'.tokens) = Len(dec.tokens) + 1
                   /\ dec'.n = dec.n + 1
       ]_vars

\* reached: a decode of two frames at its end, the first frame holding its
\* limit of two tokens, the second one left on a blank
C19_Witness ==
    /\ dec.pc = "decoding"
    /\ Len(dec.enc) = 2
    /\ dec.t = Len(dec.enc)
    /\ dec.cfg.max_tokens_per_step = 2
    /\ CountAt(dec.timestamps, 0) = 2
    /\ CountAt(dec.timestamps, 1) = 0

\* C19 as stated: at most max_tokens_per_step tokens carry any one frame index.
C19_AtMostMaxTokensPerFrame ==
    dec.pc = "decoding" =>
        \A f \in 0..Len(dec.enc) :
            CountAt(dec.timestamps, f) <= dec.cfg.max_tokens_per_step

====
